---- MODULE Spec2Model ----
(***************************************************************************)
(* Three-stage address/parcel matcher of ban_cadastre (src/src/matcher.rs) *)
(* with its geometry kernel, spatial indices and link resolver.            *)
(*                                                                         *)
(* Units.  Coordinates are integers in centimetres.  Every length the code *)
(* holds as an f64 in metres (a distance, a radius, a threshold) is        *)
(* carried here as the SQUARE of its value in centimetres, so that every   *)
(* comparison the code makes (d <= thr, lb2 >= bd2, best_dist <= r, ...)   *)
(* is exact on the integer grid: for non-negative x, y: x <= y iff         *)
(* x*x <= y*y.  Doubling a radius multiplies its square by four.           *)
(* distance_m of a record is therefore the squared distance in cm^2; the   *)
(* narrowing `as f32` is monotone and keeps zero and positive apart, which *)
(* is all the matcher and MatchOutput::new depend on.                      *)
(*                                                                         *)
(* Strings are sequences of one-character strings.                         *)
(***************************************************************************)
EXTENDS Integers, Sequences, FiniteSets, Bags, TLC

(***************************************************************************)
(* Bounds of the model                                                     *)
(***************************************************************************)
MaxParcels == 2
MaxAddrs == 2
MaxThreads == 2
MaxLinkLen == 3

(***************************************************************************)
(* Generic helpers                                                         *)
(***************************************************************************)
Sq(x) == x * x
\* x metres, as a squared length in cm^2
M2(x) == Sq(x * 100)
Min(a, b) == IF a <= b THEN a ELSE b
Max(a, b) == IF a >= b THEN a ELSE b
Range(s) == {s[i] : i \in DOMAIN s}
Perms(n) == {f \in [1..n -> 1..n] : \A i, j \in 1..n : f[i] = f[j] => i = j}

RECURSIVE Flatten(_)
Flatten(ss) == IF ss = <<>> THEN <<>> ELSE Head(ss) \o Flatten(Tail(ss))

\* ascending enumeration of a finite set of integers
RECURSIVE SortedSeq(_)
SortedSeq(S) ==
    IF S = {} THEN <<>>
    ELSE LET m == CHOOSE x \in S : \A y \in S : x <= y
         IN <<m>> \o SortedSeq(S \ {m})

(***************************************************************************)
(* Strings: String ordering, str::split, str::trim                         *)
(***************************************************************************)
\* byte value of the characters in use (ASCII)
Code(c) ==
    CASE c = " " -> 32
      [] c = "," -> 44
      [] c = "0" -> 48
      [] c = "1" -> 49
      [] c = "2" -> 50
      [] c = "3" -> 51
      [] c = "7" -> 55
      [] c = ";" -> 59
      [] c = "P" -> 80
      [] c = "Q" -> 81
      [] c = "R" -> 82
      [] c = "a" -> 97
      [] c = "|" -> 124

\* `addr.id < *id` on Rust Strings: lexicographic on bytes
RECURSIVE StrLess(_, _)
StrLess(s, t) ==
    IF t = <<>> THEN FALSE
    ELSE IF s = <<>> THEN TRUE
    ELSE IF Code(Head(s)) # Code(Head(t)) THEN Code(Head(s)) < Code(Head(t))
    ELSE StrLess(Tail(s), Tail(t))

\* the split without the '|' separator
IsSeparatorNoPipe(c) == c = ";" \/ c = ","

IsSeparator(c) == c = ";" \/ c = "|" \/ c = ","
IsWhitespace(c) == c = " "

\* links.split(|c| c == ';' || c == '|' || c == ','): every piece, empty ones included
RECURSIVE SplitFrom(_, _)
SplitFrom(s, cur) ==
    IF s = <<>> THEN <<cur>>
    ELSE IF IsSeparator(Head(s)) THEN <<cur>> \o SplitFrom(Tail(s), <<>>)
    ELSE SplitFrom(Tail(s), Append(cur, Head(s)))
Split(s) == SplitFrom(s, <<>>)

RECURSIVE TrimStart(_)
TrimStart(s) ==
    IF s # <<>> /\ IsWhitespace(Head(s)) THEN TrimStart(Tail(s)) ELSE s
RECURSIVE TrimEnd(_)
TrimEnd(s) ==
    IF s # <<>> /\ IsWhitespace(s[Len(s)]) THEN TrimEnd(SubSeq(s, 1, Len(s) - 1)) ELSE s
Trim(s) == TrimEnd(TrimStart(s))

\* Option<T>: None is <<>>, Some(v) is <<v>>
None == <<>>
Some(v) == <<v>>
IsSome(o) == o # <<>>
Unwrap(o) == o[1]

(***************************************************************************)
(* Geometry kernel (structures.rs) on axis-parallel rectangles.            *)
(* A Polygon is one rectangle, a MultiPolygon a set of rectangles; a       *)
(* rectangle and an AABB are records [x0, y0, x1, y1].                     *)
(***************************************************************************)
Rect(x0, y0, x1, y1) == [x0 |-> x0, y0 |-> y0, x1 |-> x1, y1 |-> y1]
Pt(x, y) == [x |-> x, y |-> y]

AxisGap(lo, hi, v) == IF v < lo THEN lo - v ELSE IF v > hi THEN v - hi ELSE 0

\* AABB::distance_2(point): squared distance from the point to the box, 0 inside
AABBDistance2(env, p) == Sq(AxisGap(env.x0, env.x1, p.x)) + Sq(AxisGap(env.y0, env.y1, p.y))

\* ParcelGeometry::distance_to_point, squared: 0 inside or on the boundary,
\* else the distance to the nearest ring; the minimum over the polygons of a
\* MultiPolygon
distance_to_point(geom, p) ==
    LET ds == {AABBDistance2(r, p) : r \in geom}
    IN CHOOSE d \in ds : \A e \in ds : d <= e

\* ParcelGeometry::envelope: bounding rectangle of the geometry
envelope(geom) ==
    LET lox == CHOOSE v \in {r.x0 : r \in geom} : \A r \in geom : v <= r.x0
        loy == CHOOSE v \in {r.y0 : r \in geom} : \A r \in geom : v <= r.y0
        hix == CHOOSE v \in {r.x1 : r \in geom} : \A r \in geom : v >= r.x1
        hiy == CHOOSE v \in {r.y1 : r \in geom} : \A r \in geom : v >= r.y1
    IN Rect(lox, loy, hix, hiy)

\* expand_aabb(env, margin) followed by the containment test of the query:
\* the point is in the box grown by the radius whose square is r2
InExpanded(env, r2, p) ==
    /\ Sq(AxisGap(env.x0, env.x1, p.x)) <= r2
    /\ Sq(AxisGap(env.y0, env.y1, p.y)) <= r2

\* the point is in the box itself (bounds included)
InEnvelope(env, p) ==
    /\ env.x0 <= p.x /\ p.x <= env.x1
    /\ env.y0 <= p.y /\ p.y <= env.y1

(***************************************************************************)
(* MatchOutput and MatchConfig (structures.rs)                             *)
(***************************************************************************)
\* 0.01 m: 1 cm, whose square is 1 cm^2
INSIDE_EPS_M == 1
\* f64::INFINITY: above every squared length of the model
F64_INFINITY == 1000000000

\* MatchOutput::new with the BorderNear tier test written `<=`
MatchOutput_newLe(id_ban, id_parcelle, distance_m, match_type) ==
    LET confidence ==
            CASE match_type = "PreExisting" -> 100
              [] match_type = "Inside" -> 90
              [] match_type = "BorderNear" -> IF distance_m <= M2(5) THEN 80 ELSE 70
              [] match_type = "FallbackNearest" -> 50
              [] match_type = "None" -> 0
    IN [id_ban |-> id_ban, id_parcelle |-> id_parcelle, match_type |-> match_type,
        distance_m |-> distance_m, confidence |-> confidence]

\* MatchOutput::new.  The call sites pass (id_ban, id_parcelle, distance,
\* match type); each argument is bound to the parameter of its type.
MatchOutput_new(id_ban, id_parcelle, distance_m, match_type) ==
    LET confidence ==
            CASE match_type = "PreExisting" -> 100
              [] match_type = "Inside" -> 90
              [] match_type = "BorderNear" -> IF distance_m < M2(5) THEN 80 ELSE 70
              [] match_type = "FallbackNearest" -> 50
              [] match_type = "None" -> 0
    IN [id_ban |-> id_ban, id_parcelle |-> id_parcelle, match_type |-> match_type,
        distance_m |-> distance_m, confidence |-> confidence]

MatchConfig(address_max, fallback_max, fallback_expand) ==
    [address_max_distance_m |-> address_max,
     fallback_max_distance_m |-> fallback_max,
     fallback_envelope_expand_m |-> fallback_expand]

(***************************************************************************)
(* Loading (loader.rs): what a row becomes                                 *)
(***************************************************************************)
\* s_trim.eq_ignore_ascii_case("null")
IsNullLiteral(s) ==
    /\ Len(s) = 4
    /\ s[1] \in {"n", "N"} /\ s[2] \in {"u", "U"}
    /\ s[3] \in {"l", "L"} /\ s[4] \in {"l", "L"}

\* existing_link_raw.and_then(...): trimmed, absent when empty or "null"
LoadLink(raw) ==
    IF ~IsSome(raw) THEN None
    ELSE LET s_trim == Trim(Unwrap(raw))
         IN IF s_trim = <<>> \/ IsNullLiteral(s_trim) THEN None ELSE Some(s_trim)

\* a row of the parcel table
ParcelData(id, code_insee, geom) ==
    [id |-> id, code_insee |-> code_insee, geom |-> geom, envelope |-> envelope(geom)]
\* a row of the address table
AddressInput(id, code_insee, geom, raw_link) ==
    [id |-> id, code_insee |-> code_insee, geom |-> geom, existing_link |-> LoadLink(raw_link)]

(***************************************************************************)
(* Inputs: the rows a department may hold                                  *)
(***************************************************************************)
\* P is the 10 m square of the reference scenarios, PQ a MultiPolygon whose
\* envelope is mostly empty, R a rectangle 5 m to the left of P.
ParcelRows ==
    << ParcelData(<<"P">>, "01001", {Rect(0, 0, 1000, 1000)}),
       ParcelData(<<"P", "Q">>, "01001", {Rect(2000, 0, 2400, 400), Rect(3200, 1200, 3600, 1600)}),
       ParcelData(<<"R">>, "01002", {Rect(-1500, 0, -500, 1000)}) >>

\*  a1   inside P
\*  a2   2 m right of P
\*  a3   1 cm above the top-right corner of P, outside its envelope
\*  a01  inside the envelope of PQ, 6 m from its geometry; linked to P
\*  a02  5.5 m below PQ, outside the 5 m window; linked to R and to an unknown id
\*  a7   5 m left of P, on the top-right vertex of R
\*  a10  5 m right of P and 5 m left of PQ
AddressRows ==
    << AddressInput(<<"a", "1">>, "01001", Pt(500, 500), None),
       AddressInput(<<"a", "2">>, "01001", Pt(1200, 500), None),
       AddressInput(<<"a", "3">>, "01001", Pt(1000, 1001), Some(<<>>)),
       AddressInput(<<"a", "0", "1">>, "01001", Pt(3000, 200), Some(<<"P">>)),
       AddressInput(<<"a", "0", "2">>, "01001", Pt(2200, -550), Some(<<" ", "R", " ", "|", "Q">>)),
       AddressInput(<<"a", "7">>, "01002", Pt(-500, 1000), None),
       AddressInput(<<"a", "1", "0">>, "01001", Pt(1500, 200), None) >>

Configs ==
    {MatchConfig(am, fm, fe) : am \in {M2(1), M2(9)}, fm \in {M2(6), M2(30)}, fe \in {M2(1), M2(8)}}

\* rows picked from a table, in table order
Pick(rows, S) == LET ix == SortedSeq(S) IN [i \in 1..Len(ix) |-> rows[ix[i]]]
Picks(rows, max) ==
    {Pick(rows, S) : S \in {T \in SUBSET (1..Len(rows)) : T # {} /\ Cardinality(T) <= max}}

\* every string of length at most n over the alphabet
LinkAlphabet == {"P", "Q", ";", "|", ",", " "}
RECURSIVE StringsUpTo(_)
StringsUpTo(n) ==
    IF n = 0 THEN {<<>>}
    ELSE LET shorter == StringsUpTo(n - 1)
         IN shorter \cup {Append(s, c) : s \in {t \in shorter : Len(t) = n - 1}, c \in LinkAlphabet}

(***************************************************************************)
(* State                                                                   *)
(***************************************************************************)
VARIABLES
    parcels,            \* the ParcelStore: sequence of ParcelData
    addresses,          \* the address slice: sequence of AddressInput
    config,             \* the MatchConfig
    address_tree,       \* AddressIndex.tree: the order in which the R-tree
                        \* yields the address indices (fixed by bulk_load)
    parcel_tree,        \* DepartmentIndex.tree: rank of each parcel index among
                        \* nodes at equal distance in nearest_neighbor_iter
    num_threads,        \* size of the worker pool
    pc,                 \* position of the calling thread in the matcher
    preexisting_map,    \* parcel id -> PreExisting records
    unit_status,        \* unit of the current parallel stage -> todo/running/done
    step1_results,      \* parcel index -> records of its Stage-1 unit
    step2_results,      \* address index -> Option<record> of its Stage-2 unit
    step3_local,        \* parcel index -> locals of its Stage-3 closure
    step3_results,      \* parcel index -> Option<record> of its Stage-3 unit
    parcel_has_match,   \* parcel index -> BOOLEAN
    parcels_without_match_indices,
    all_matches,        \* the returned Vec<MatchOutput>
    args,               \* the parsed arguments of the running command
    staging,            \* the two input parquet files: Option<rows> each
    step,               \* frame of step_match / run_link: pc, iterator, result
    writer,             \* Option<MatchWriter>: batch_buffer, batch_size
    output_file,        \* the matches parquet at the output path
    process,            \* frame of main: pc, exit code
    batch,              \* frame of run_pipeline: depts, idx, BatchState, result
    aggregate,          \* frame of step_aggregate and the output directory
    analyze,            \* frame of run_analyze, its manifest and files
    qa                  \* frame of step_qa, its two views and tiers_res

\* what lies outside a call of the matcher
step_vars == <<args, staging, step, writer, output_file>>
main_vars == <<process, batch, aggregate, analyze>>
outside == <<step_vars, main_vars, qa>>

matcher_locals == <<pc, preexisting_map, unit_status, step1_results, step2_results, step3_local,
                    step3_results, parcel_has_match, parcels_without_match_indices>>

\* the arguments of the matcher, and the state it never touches
inputs == <<parcels, addresses, config, address_tree, parcel_tree, num_threads, outside>>
vars == <<parcels, addresses, config, address_tree, parcel_tree, num_threads, pc,
          preexisting_map, unit_status, step1_results, step2_results, step3_local,
          step3_results, parcel_has_match, parcels_without_match_indices, all_matches,
          outside>>

\* a frame of a function that is not being run
NotRunning == [pc |-> "none"]

ParcelIdx == 1..Len(parcels)
AddrIdx == 1..Len(addresses)

(***************************************************************************)
(* Spatial indices (indexer.rs)                                            *)
(***************************************************************************)
\* AddressIndex::locate_in_envelope: the addresses whose point lies in the
\* box, in the order of the tree (given by their indices)
locate_in_envelope(env) ==
    SelectSeq(address_tree, LAMBDA i : InEnvelope(env, addresses[i].geom))

\* AddressIndex::locate_in_envelope_indices on expand_aabb(env, r): the
\* indices of the addresses whose point lies in the grown box, in the order
\* of the tree
locate_in_envelope_indices(env, r2) ==
    SelectSeq(address_tree, LAMBDA i : InExpanded(env, r2, addresses[i].geom))

\* ParcelNode::distance_2
distance_2(idx, point) == distance_to_point(parcels[idx].geom, point)

\* parcel_index.tree.nearest_neighbor_iter(point): the nodes by ascending
\* distance_2, nodes at equal distance in the order of the tree
RECURSIVE NearestFrom(_, _)
NearestFrom(S, point) ==
    IF S = {} THEN <<>>
    ELSE LET n == CHOOSE i \in S : \A j \in S \ {i} :
                      \/ distance_2(i, point) < distance_2(j, point)
                      \/ /\ distance_2(i, point) = distance_2(j, point)
                         /\ parcel_tree[i] < parcel_tree[j]
         IN <<n>> \o NearestFrom(S \ {n}, point)
nearest_neighbor_iter(point) == NearestFrom(ParcelIdx, point)

(***************************************************************************)
(* Preexisting-link resolver (matcher.rs, build_preexisting_map)           *)
(***************************************************************************)
\* the PreExisting records of one address, in token order
LinkRecords(addr, known_parcels) ==
    IF ~IsSome(addr.existing_link) THEN <<>>
    ELSE LET pieces == Split(Unwrap(addr.existing_link))
             pids == [i \in 1..Len(pieces) |-> Trim(pieces[i])]
             kept == SelectSeq(pids, LAMBDA pid : pid # <<>> /\ pid \in known_parcels)
         IN [i \in 1..Len(kept) |->
                MatchOutput_new(addr.id, Some(kept[i]), 0, "PreExisting")]

build_preexisting_map(addrs, known_parcels) ==
    LET pushed == Flatten([i \in 1..Len(addrs) |-> LinkRecords(addrs[i], known_parcels)])
        keys == {Unwrap(m.id_parcelle) : m \in Range(pushed)}
    IN [pid \in keys |-> SelectSeq(pushed, LAMBDA m : Unwrap(m.id_parcelle) = pid)]

(***************************************************************************)
(* Stage 1 unit: PreExisting and Inside of one parcel (matcher.rs 75-102)  *)
(***************************************************************************)
\* the test reduced to the envelope hit
InsideByEnvelope(parcel, p) == InEnvelope(parcel.envelope, p)

is_inside_or_on_border(parcel, p) == distance_to_point(parcel.geom, p) <= INSIDE_EPS_M

\* the unit without the skip of the addresses pre-linked to the parcel
Step1UnitNoStrict(idx) ==
    LET parcel == parcels[idx]
        pre == IF parcel.id \in DOMAIN preexisting_map THEN preexisting_map[parcel.id] ELSE <<>>
        hits == SelectSeq(locate_in_envelope(parcel.envelope),
                          LAMBDA a : is_inside_or_on_border(parcel, addresses[a].geom))
    IN pre \o [i \in 1..Len(hits) |->
                  MatchOutput_new(addresses[hits[i]].id, Some(parcel.id), 0, "Inside")]

Step1Unit(idx) ==
    LET parcel == parcels[idx]
        pre == IF parcel.id \in DOMAIN preexisting_map THEN preexisting_map[parcel.id] ELSE <<>>
        strict_addr_ids == {m.id_ban : m \in Range(pre)}
        hits == SelectSeq(locate_in_envelope(parcel.envelope),
                          LAMBDA a : /\ addresses[a].id \notin strict_addr_ids
                                     /\ is_inside_or_on_border(parcel, addresses[a].geom))
    IN pre \o [i \in 1..Len(hits) |->
                  MatchOutput_new(addresses[hits[i]].id, Some(parcel.id), 0, "Inside")]

(***************************************************************************)
(* Stage 2 unit: BorderNear of one address (matcher.rs 130-165)            *)
(***************************************************************************)
\* the loop keeping the last admissible node instead of the nearest
RECURSIVE Step2ScanLast(_, _, _, _)
Step2ScanLast(nodes, point, thr, best) ==
    IF nodes = <<>> THEN best
    ELSE LET node == Head(nodes)
             d == distance_to_point(parcels[node].geom, point)
         IN IF distance_2(node, point) > thr THEN best
            ELSE IF d <= INSIDE_EPS_M \/ d > thr THEN Step2ScanLast(Tail(nodes), point, thr, best)
            ELSE Step2ScanLast(Tail(nodes), point, thr, Some(<<node, d>>))

\* the loop over the nodes; best is None or Some(<<parcel index, d>>)
RECURSIVE Step2Scan(_, _, _, _)
Step2Scan(nodes, point, thr, best) ==
    IF nodes = <<>> THEN best
    ELSE LET node == Head(nodes)
             d == distance_to_point(parcels[node].geom, point)
         IN IF distance_2(node, point) > thr THEN best
            ELSE IF d <= INSIDE_EPS_M \/ d > thr THEN Step2Scan(Tail(nodes), point, thr, best)
            ELSE IF ~IsSome(best) \/ d < Unwrap(best)[2]
                 THEN Step2Scan(Tail(nodes), point, thr, Some(<<node, d>>))
                 ELSE Step2Scan(Tail(nodes), point, thr, best)

Step2Unit(a) ==
    LET addr == addresses[a]
        best == Step2Scan(nearest_neighbor_iter(addr.geom), addr.geom,
                          config.address_max_distance_m, None)
    IN IF ~IsSome(best) THEN None
       ELSE Some(MatchOutput_new(addr.id, Some(parcels[Unwrap(best)[1]].id),
                                 Unwrap(best)[2], "BorderNear"))

(***************************************************************************)
(* Stage 3 unit: expansion loop of one parcel (matcher.rs 187-293)         *)
(***************************************************************************)
\* locals of the closure at its start (matcher.rs 195-201)
Step3Start ==
    [phase |-> "loop",
     r |-> Max(config.fallback_envelope_expand_m, M2(5)),
     seen |-> {},
     any_new |-> FALSE,
     best_idx |-> None,
     best_dist |-> F64_INFINITY,
     best_addr_id |-> None]

\* body of the inner for loop for one candidate (matcher.rs 209-250)
Step3Visit(parcel, dmax, st, a_idx) ==
    IF a_idx \in st.seen THEN st
    ELSE LET st1 == [st EXCEPT !.seen = @ \cup {a_idx}, !.any_new = TRUE]
             addr == addresses[a_idx]
             lb2 == AABBDistance2(parcel.envelope, addr.geom)
             bd2 == st.best_dist
             d == distance_to_point(parcel.geom, addr.geom)
             better ==
                 IF ~IsSome(st.best_idx) THEN TRUE
                 ELSE IF d < st.best_dist THEN TRUE
                 ELSE IF d = st.best_dist
                      THEN IF IsSome(st.best_addr_id)
                           THEN StrLess(addr.id, Unwrap(st.best_addr_id))
                           ELSE TRUE
                      ELSE FALSE
         IN IF IsSome(st.best_idx) /\ st.best_dist # F64_INFINITY /\ lb2 >= bd2 THEN st1
            ELSE IF d > dmax THEN st1
            ELSE IF better
                 THEN [st1 EXCEPT !.best_dist = d, !.best_idx = Some(a_idx),
                                  !.best_addr_id = Some(addr.id)]
                 ELSE st1

RECURSIVE Step3Window(_, _, _, _)
Step3Window(parcel, dmax, st, cands) ==
    IF cands = <<>> THEN st
    ELSE Step3Window(parcel, dmax, Step3Visit(parcel, dmax, st, Head(cands)), Tail(cands))

\* the stopping rule without the comparison to the radius
Step3StopEarly(st) == IsSome(st.best_idx)

\* the stopping rule (matcher.rs 254)
Step3Stop(st) == IsSome(st.best_idx) /\ st.best_dist <= st.r

\* the growth rule (matcher.rs 266-269)
Step3NextR(st, dmax) ==
    IF IsSome(st.best_idx) /\ st.best_dist # F64_INFINITY /\ st.best_dist > st.r
    THEN Min(st.best_dist, dmax)
    ELSE Min(4 * st.r, dmax)

\* the loop body without the breaks on an exhausted or unchanged radius
Step3IterateNoBreak(parcel, st) ==
    LET dmax == config.fallback_max_distance_m
    IN IF ~(st.r <= dmax) THEN [st EXCEPT !.phase = "emit"]
       ELSE LET st1 == Step3Window(parcel, dmax, [st EXCEPT !.any_new = FALSE],
                                   locate_in_envelope_indices(parcel.envelope, st.r))
            IN IF Step3Stop(st1) THEN [st1 EXCEPT !.phase = "emit"]
               ELSE [st1 EXCEPT !.r = Step3NextR(st1, dmax)]

\* one evaluation of the while condition and, when it holds, of the loop
\* body (matcher.rs 203-274); phase "emit" is the code after the loop
Step3Iterate(parcel, st) ==
    LET dmax == config.fallback_max_distance_m
    IN IF ~(st.r <= dmax) THEN [st EXCEPT !.phase = "emit"]
       ELSE LET st1 == Step3Window(parcel, dmax, [st EXCEPT !.any_new = FALSE],
                                   locate_in_envelope_indices(parcel.envelope, st.r))
                next_r == Step3NextR(st1, dmax)
            IN IF Step3Stop(st1) THEN [st1 EXCEPT !.phase = "emit"]
               ELSE IF ~st1.any_new /\ st1.r >= dmax THEN [st1 EXCEPT !.phase = "emit"]
               ELSE IF next_r <= st1.r THEN [st1 EXCEPT !.phase = "emit"]
               ELSE [st1 EXCEPT !.r = next_r]

\* the emission keeping best_dist as the distance of a reclassified record
Step3EmitRawDist(parcel, st) ==
    IF ~IsSome(st.best_idx) THEN None
    ELSE LET addr == addresses[Unwrap(st.best_idx)]
         IN IF st.best_dist <= INSIDE_EPS_M
            THEN Some(MatchOutput_new(addr.id, Some(parcel.id), st.best_dist, "Inside"))
            ELSE Some(MatchOutput_new(addr.id, Some(parcel.id), st.best_dist, "FallbackNearest"))

\* the code after the loop (matcher.rs 276-292)
Step3Emit(parcel, st) ==
    IF ~IsSome(st.best_idx) THEN None
    ELSE LET addr == addresses[Unwrap(st.best_idx)]
         IN IF st.best_dist <= INSIDE_EPS_M
            THEN Some(MatchOutput_new(addr.id, Some(parcel.id), 0, "Inside"))
            ELSE Some(MatchOutput_new(addr.id, Some(parcel.id), st.best_dist, "FallbackNearest"))

(***************************************************************************)
(* Bookkeeping of the calling thread                                       *)
(***************************************************************************)
\* parcel_idx_by_id.get(pid): the last index inserted for the id
parcel_idx_by_id(pid) ==
    LET S == {i \in ParcelIdx : parcels[i].id = pid}
    IN IF S = {} THEN None ELSE Some(CHOOSE i \in S : \A j \in S : j <= i)

\* marking loops that mark nothing
MarkNothing(has, ms) == has

\* the marking loops (matcher.rs 119-125 and 169-175)
MarkMatched(has, ms) ==
    [i \in ParcelIdx |->
        \/ has[i]
        \/ \E k \in 1..Len(ms) : /\ IsSome(ms[k].id_parcelle)
                                 /\ parcel_idx_by_id(Unwrap(ms[k].id_parcelle)) = Some(i)]

\* a collect that takes the units by descending index
CollectSomeReversed(results, units) ==
    Flatten([k \in 1..Len(units) |-> results[units[Len(units) + 1 - k]]])

\* collect() of a filter_map: the records of the units, by ascending unit index
CollectSome(results, units) ==
    Flatten([k \in 1..Len(units) |-> results[units[k]]])

AllDone == \A u \in DOMAIN unit_status : unit_status[u] = "done"
Running == {u \in DOMAIN unit_status : unit_status[u] = "running"}

(***************************************************************************)
(* Initial states: the arguments of match_parcels_and_addresses_3_steps    *)
(***************************************************************************)
PermSeqs(n) == {[i \in 1..n |-> f[i]] : f \in Perms(n)}

InitWith(parcel_sets, address_sets, config_set) ==
    /\ parcels \in parcel_sets
    /\ addresses \in address_sets
    /\ config \in config_set
    /\ address_tree \in PermSeqs(Len(addresses))
    /\ parcel_tree \in PermSeqs(Len(parcels))
    /\ num_threads \in 1..MaxThreads
    /\ pc = "start"
    /\ preexisting_map = <<>>
    /\ unit_status = <<>>
    /\ step1_results = <<>>
    /\ step2_results = <<>>
    /\ step3_local = <<>>
    /\ step3_results = <<>>
    /\ parcel_has_match = <<>>
    /\ parcels_without_match_indices = <<>>
    /\ all_matches = <<>>
    /\ args = NotRunning
    /\ staging = NotRunning
    /\ step = NotRunning
    /\ writer = None
    /\ output_file = NotRunning
    /\ process = NotRunning
    /\ batch = NotRunning
    /\ aggregate = NotRunning
    /\ analyze = NotRunning
    /\ qa = NotRunning

\* departments made of rows of the two tables, any configuration
Init == InitWith(Picks(ParcelRows, MaxParcels), Picks(AddressRows, MaxAddrs), Configs)

\* one address inside P carrying any existing_link column of bounded length
LinkedAddresses ==
    {<<AddressInput(<<"a", "1">>, "01001", Pt(500, 500), raw)>> :
        raw \in {None} \cup {Some(s) : s \in StringsUpTo(MaxLinkLen)}}

InitLinks ==
    InitWith(Picks(ParcelRows, MaxParcels), LinkedAddresses, {MatchConfig(M2(9), M2(30), M2(1))})

(***************************************************************************)
(* Actions                                                                 *)
(***************************************************************************)
\* matcher.rs 66-70: known_parcels, preexisting_map, the two indices
Prepare ==
    /\ pc = "start"
    /\ preexisting_map' = build_preexisting_map(addresses, {parcels[i].id : i \in ParcelIdx})
    /\ unit_status' = [i \in ParcelIdx |-> "todo"]
    /\ step1_results' = [i \in ParcelIdx |-> <<>>]
    /\ pc' = "step1"
    /\ UNCHANGED <<inputs, step2_results, step3_local, step3_results, parcel_has_match,
                   parcels_without_match_indices, all_matches>>

\* a worker of the pool takes a unit of the current stage
CanBegin(u) ==
    /\ u \in DOMAIN unit_status
    /\ unit_status[u] = "todo"
    /\ Cardinality(Running) < num_threads

Step1Begin(idx) ==
    /\ pc = "step1"
    /\ CanBegin(idx)
    /\ unit_status' = [unit_status EXCEPT ![idx] = "running"]
    /\ UNCHANGED <<inputs, pc, preexisting_map, step1_results, step2_results, step3_local,
                   step3_results, parcel_has_match, parcels_without_match_indices, all_matches>>

\* matcher.rs 75-102
Step1Finish(idx) ==
    /\ pc = "step1"
    /\ idx \in DOMAIN unit_status
    /\ unit_status[idx] = "running"
    /\ step1_results' = [step1_results EXCEPT ![idx] = Step1Unit(idx)]
    /\ unit_status' = [unit_status EXCEPT ![idx] = "done"]
    /\ UNCHANGED <<inputs, pc, preexisting_map, step2_results, step3_local,
                   step3_results, parcel_has_match, parcels_without_match_indices, all_matches>>

\* the parallel map of Stage 1 has returned
Step1Complete == pc = "step1" /\ AllDone

\* matcher.rs 103-125: concatenation of the Stage-1 vectors, marking
Collect1 ==
    /\ Step1Complete
    /\ all_matches' = Flatten(step1_results)
    /\ parcel_has_match' = MarkMatched([i \in ParcelIdx |-> FALSE], all_matches')
    /\ unit_status' = [a \in AddrIdx |-> "todo"]
    /\ step2_results' = [a \in AddrIdx |-> None]
    /\ pc' = "step2"
    /\ UNCHANGED <<inputs, preexisting_map, step1_results, step3_local, step3_results,
                   parcels_without_match_indices>>

Step2Begin(a) ==
    /\ pc = "step2"
    /\ CanBegin(a)
    /\ unit_status' = [unit_status EXCEPT ![a] = "running"]
    /\ UNCHANGED <<inputs, pc, preexisting_map, step1_results, step2_results, step3_local,
                   step3_results, parcel_has_match, parcels_without_match_indices, all_matches>>

\* matcher.rs 130-165
Step2Finish(a) ==
    /\ pc = "step2"
    /\ a \in DOMAIN unit_status
    /\ unit_status[a] = "running"
    /\ step2_results' = [step2_results EXCEPT ![a] = Step2Unit(a)]
    /\ unit_status' = [unit_status EXCEPT ![a] = "done"]
    /\ UNCHANGED <<inputs, pc, preexisting_map, step1_results, step3_local,
                   step3_results, parcel_has_match, parcels_without_match_indices, all_matches>>

\* Stage 2 taken as returned while units are still running
Step2CompleteEarly == pc = "step2"

\* the parallel filter_map of Stage 2 has returned
Step2Complete == pc = "step2" /\ AllDone

\* matcher.rs 166-183: marking, extension, the parcels left for Stage 3
Collect2 ==
    /\ Step2Complete
    /\ LET step2 == CollectSome(step2_results, [a \in AddrIdx |-> a])
           has == MarkMatched(parcel_has_match, step2)
           rest == SortedSeq({i \in ParcelIdx : ~has[i]})
       IN /\ parcel_has_match' = has
          /\ all_matches' = all_matches \o step2
          /\ parcels_without_match_indices' = rest
          /\ unit_status' = [i \in Range(rest) |-> "todo"]
          /\ step3_results' = [i \in Range(rest) |-> None]
    /\ pc' = "step3"
    /\ UNCHANGED <<inputs, preexisting_map, step1_results, step2_results, step3_local>>

\* matcher.rs 187-201
Step3Begin(idx) ==
    /\ pc = "step3"
    /\ CanBegin(idx)
    /\ unit_status' = [unit_status EXCEPT ![idx] = "running"]
    /\ step3_local' = [i \in DOMAIN step3_local \cup {idx} |->
                          IF i = idx THEN Step3Start ELSE step3_local[i]]
    /\ UNCHANGED <<inputs, pc, preexisting_map, step1_results, step2_results,
                   step3_results, parcel_has_match, parcels_without_match_indices, all_matches>>

\* matcher.rs 203-274: one turn of the while loop
Step3Pass(idx) ==
    /\ pc = "step3"
    /\ idx \in DOMAIN unit_status
    /\ unit_status[idx] = "running"
    /\ step3_local[idx].phase = "loop"
    /\ step3_local' = [step3_local EXCEPT ![idx] = Step3Iterate(parcels[idx], @)]
    /\ UNCHANGED <<inputs, pc, preexisting_map, unit_status, step1_results, step2_results,
                   step3_results, parcel_has_match, parcels_without_match_indices, all_matches>>

\* matcher.rs 276-292
Step3Finish(idx) ==
    /\ pc = "step3"
    /\ idx \in DOMAIN unit_status
    /\ unit_status[idx] = "running"
    /\ step3_local[idx].phase = "emit"
    /\ step3_results' = [step3_results EXCEPT ![idx] = Step3Emit(parcels[idx], step3_local[idx])]
    /\ unit_status' = [unit_status EXCEPT ![idx] = "done"]
    /\ UNCHANGED <<inputs, pc, preexisting_map, step1_results, step2_results, step3_local,
                   parcel_has_match, parcels_without_match_indices, all_matches>>

\* the parallel filter_map of Stage 3 has returned
Step3Complete == pc = "step3" /\ AllDone

\* matcher.rs 294-297
Collect3 ==
    /\ Step3Complete
    /\ all_matches' = all_matches \o CollectSome(step3_results, parcels_without_match_indices)
    /\ pc' = "done"
    /\ UNCHANGED <<inputs, preexisting_map, unit_status, step1_results, step2_results,
                   step3_local, step3_results, parcel_has_match, parcels_without_match_indices>>

Next ==
    \/ Prepare
    \/ \E idx \in 1..Len(ParcelRows) : Step1Begin(idx)
    \/ \E idx \in 1..Len(ParcelRows) : Step1Finish(idx)
    \/ Collect1
    \/ \E a \in 1..Len(AddressRows) : Step2Begin(a)
    \/ \E a \in 1..Len(AddressRows) : Step2Finish(a)
    \/ Collect2
    \/ \E idx \in 1..Len(ParcelRows) : Step3Begin(idx)
    \/ \E idx \in 1..Len(ParcelRows) : Step3Pass(idx)
    \/ \E idx \in 1..Len(ParcelRows) : Step3Finish(idx)
    \/ Collect3

Spec == Init /\ [][Next]_vars
SpecLinks == InitLinks /\ [][Next]_vars

\* two parcels sharing the edge x = 10 m
NeighbourParcels ==
    << ParcelData(<<"P">>, "01001", {Rect(0, 0, 1000, 1000)}),
       ParcelData(<<"S">>, "01001", {Rect(1000, 0, 2000, 1000)}) >>

\*  b1  on the shared edge, with the link column given
\*  b2  on the shared edge, without link
\*  b3  1 cm above the shared corner, outside both envelopes
NeighbourAddresses(raw_link) ==
    << AddressInput(<<"b", "1">>, "01001", Pt(1000, 500), raw_link),
       AddressInput(<<"b", "2">>, "01001", Pt(1000, 200), None),
       AddressInput(<<"b", "3">>, "01001", Pt(1000, 1001), None) >>

InitNeighbours ==
    InitWith(Picks(NeighbourParcels, MaxParcels),
             UNION {Picks(NeighbourAddresses(raw), MaxAddrs) :
                       raw \in {None, Some(<<"P">>), Some(<<"S", ";", " ", "P">>)}},
             {MatchConfig(M2(1), M2(30), M2(1))})

SpecNeighbours == InitNeighbours /\ [][Next]_vars

\* the matcher on a pool of one thread, scheduled: the unit that can run is
\* run, and the calling thread collects a stage whose units have returned
InitFair == Init /\ num_threads = 1
SpecFair == InitFair /\ [][Next]_vars /\ WF_vars(Next)

(***************************************************************************)
(* MatchWriter (writer.rs)                                                 *)
(***************************************************************************)
MaxBatchSize == 2
MaxWrites == 3

\* the schema of writer.rs 24-30
MatchSchema == <<"id_ban", "id_parcelle", "match_type", "distance_m", "confidence">>

\* writer.rs 57-87: the buffer turned into five column arrays
RecordBatch(buffer) ==
    [id_ban |-> [i \in DOMAIN buffer |-> buffer[i].id_ban],
     id_parcelle |-> [i \in DOMAIN buffer |-> buffer[i].id_parcelle],
     match_type |-> [i \in DOMAIN buffer |-> buffer[i].match_type],
     distance_m |-> [i \in DOMAIN buffer |-> buffer[i].distance_m],
     confidence |-> [i \in DOMAIN buffer |-> buffer[i].confidence]]

\* no file at the output path
NoFile == [exists |-> FALSE, created |-> FALSE, schema |-> <<>>, batches |-> <<>>, footer |-> FALSE]

\* a finished matches file left at the output path by an earlier run
EarlierFile ==
    [exists |-> TRUE, created |-> FALSE, schema |-> MatchSchema, batches |-> <<>>, footer |-> TRUE]

\* File::create(path): the file is created, or truncated if it was there.
\* `created` records that the running call made it.
File_create == [exists |-> TRUE, created |-> TRUE, schema |-> <<>>, batches |-> <<>>, footer |-> FALSE]

\* ArrowWriter::try_new(file, schema): the writer holds the schema
ArrowWriter_try_new(file) == [file EXCEPT !.schema = MatchSchema]

\* the fields of Self in writer.rs 36-41; the ArrowWriter is the output file
MatchWriter_new(batch_size) == [batch_buffer |-> <<>>, batch_size |-> batch_size]

\* flush_buffer that leaves the buffer as it is after handing it over
flush_bufferNoClear(w, file, io_ok) ==
    IF w.batch_buffer = <<>> THEN [ok |-> TRUE, writer |-> w, file |-> file]
    ELSE IF ~io_ok THEN [ok |-> FALSE, writer |-> w, file |-> file]
    ELSE [ok |-> TRUE, writer |-> w,
          file |-> [file EXCEPT !.batches = Append(@, RecordBatch(w.batch_buffer))]]

\* MatchWriter::flush_buffer (writer.rs 52-93); io_ok: self.writer.write(&batch)
\* succeeds.  On failure the `?` returns before the buffer is cleared.
flush_buffer(w, file, io_ok) ==
    IF w.batch_buffer = <<>> THEN [ok |-> TRUE, writer |-> w, file |-> file]
    ELSE IF ~io_ok THEN [ok |-> FALSE, writer |-> w, file |-> file]
    ELSE [ok |-> TRUE, writer |-> [w EXCEPT !.batch_buffer = <<>>],
          file |-> [file EXCEPT !.batches = Append(@, RecordBatch(w.batch_buffer))]]

\* MatchWriter::write flushing when the buffer has more than batch_size records
MatchWriter_writeGt(w, file, m, io_ok) ==
    LET pushed == [w EXCEPT !.batch_buffer = Append(@, m)]
    IN IF Len(pushed.batch_buffer) > pushed.batch_size
       THEN flush_buffer(pushed, file, io_ok)
       ELSE [ok |-> TRUE, writer |-> pushed, file |-> file]

\* MatchWriter::write (writer.rs 44-50)
MatchWriter_write(w, file, m, io_ok) ==
    LET pushed == [w EXCEPT !.batch_buffer = Append(@, m)]
    IN IF Len(pushed.batch_buffer) >= pushed.batch_size
       THEN flush_buffer(pushed, file, io_ok)
       ELSE [ok |-> TRUE, writer |-> pushed, file |-> file]

\* MatchWriter::close (writer.rs 95-99); io_close: self.writer.close() succeeds
\* and the footer is on disk
MatchWriter_close(w, file, io_flush, io_close) ==
    LET flushed == flush_buffer(w, file, io_flush)
    IN IF ~flushed.ok THEN flushed
       ELSE IF ~io_close THEN [flushed EXCEPT !.ok = FALSE]
       ELSE [flushed EXCEPT !.file.footer = TRUE]

\* the rows of a batch, read back from its columns
BatchRows(b) ==
    [i \in DOMAIN b.id_ban |->
        [id_ban |-> b.id_ban[i], id_parcelle |-> b.id_parcelle[i], match_type |-> b.match_type[i],
         distance_m |-> b.distance_m[i], confidence |-> b.confidence[i]]]

\* the rows of a file, batch after batch
FileRows(file) == Flatten([k \in DOMAIN file.batches |-> BatchRows(file.batches[k])])

(***************************************************************************)
(* Loading the staging files (loader.rs)                                   *)
(***************************************************************************)
\* The geometry column of a row: bytes that decode to a geometry of some
\* kind (its rings as rectangles, or its point), or that are no WKB at all.
WkbRings(kind, rects) == [kind |-> kind, rects |-> rects, point |-> Pt(0, 0)]
WkbPoint(point) == [kind |-> "Point", rects |-> {}, point |-> point]
WkbInvalid == [kind |-> "Invalid", rects |-> {}, point |-> Pt(0, 0)]

\* A row of a staging file.  id, code_insee: what get_string_or_long finds
\* (None: neither string nor long); wkb: what get_bytes(2) finds (None: not
\* a byte column); existing_link: column 3 of the address file.
RawRow(id, code_insee, wkb, existing_link) ==
    [id |-> id, code_insee |-> code_insee, wkb |-> wkb, existing_link |-> existing_link]

\* the parcel rows a department file may hold: two sound rows around a row
\* with an unreadable id, a Point in the parcel file and bytes that are no WKB
RawParcelRows ==
    << RawRow(Some(<<"P">>), Some("01001"), Some(WkbRings("Polygon", {Rect(0, 0, 1000, 1000)})), None),
       RawRow(None, Some("01001"), Some(WkbRings("Polygon", {Rect(0, 0, 1000, 1000)})), None),
       RawRow(Some(<<"Q">>), Some("01001"), Some(WkbPoint(Pt(500, 500))), None),
       RawRow(Some(<<"Q">>), Some("01001"), Some(WkbInvalid), None),
       RawRow(Some(<<"R">>), Some("01002"),
              Some(WkbRings("MultiPolygon", {Rect(-1500, 0, -500, 1000), Rect(-1500, 1200, -500, 1400)})),
              None) >>

\* the address rows: a1 inside P and linked to it, a Polygon in the address
\* file, bytes that are no WKB, an unreadable code_insee, a7 on a vertex of R
RawAddressRows ==
    << RawRow(Some(<<"a", "1">>), Some("01001"), Some(WkbPoint(Pt(500, 500))),
              Some(<<" ", "P">>)),
       RawRow(Some(<<"a", "2">>), Some("01001"), Some(WkbRings("Polygon", {Rect(0, 0, 1000, 1000)})),
              None),
       RawRow(Some(<<"a", "3">>), Some("01001"), Some(WkbInvalid), None),
       RawRow(Some(<<"a", "2">>), None, Some(WkbPoint(Pt(1200, 500))), None),
       RawRow(Some(<<"a", "7">>), Some("01002"), Some(WkbPoint(Pt(-500, 1000))), None) >>

\* the files a staging directory may hold at a path: none, or rows of the table
StagingFiles(rows, max) ==
    {None} \cup {Some(Pick(rows, S)) : S \in {T \in SUBSET (1..Len(rows)) : Cardinality(T) <= max}}

\* loader.rs 28-58: the loop of load_parcels over the rows left, `parcels`
\* being the vector built so far
RECURSIVE load_parcels_rows(_, _)
load_parcels_rows(rows, acc) ==
    IF rows = <<>> THEN [ok |-> TRUE, value |-> acc]
    ELSE LET row == Head(rows)
         IN IF ~IsSome(row.id) \/ ~IsSome(row.code_insee) \/ ~IsSome(row.wkb)
            THEN [ok |-> FALSE, value |-> <<>>]
            ELSE IF Unwrap(row.wkb).kind = "Invalid"
            THEN [ok |-> FALSE, value |-> <<>>]
            ELSE IF Unwrap(row.wkb).kind \in {"Polygon", "MultiPolygon"}
            THEN load_parcels_rows(Tail(rows),
                     Append(acc, ParcelData(Unwrap(row.id), Unwrap(row.code_insee),
                                            Unwrap(row.wkb).rects)))
            ELSE load_parcels_rows(Tail(rows), acc)

\* load_parcels (loader.rs 21-60); File::open fails on a missing file
load_parcels(file) ==
    IF ~IsSome(file) THEN [ok |-> FALSE, value |-> <<>>]
    ELSE load_parcels_rows(Unwrap(file), <<>>)

\* loader.rs 68-103: the loop of load_addresses
RECURSIVE load_addresses_rows(_, _)
load_addresses_rows(rows, acc) ==
    IF rows = <<>> THEN [ok |-> TRUE, value |-> acc]
    ELSE LET row == Head(rows)
         IN IF ~IsSome(row.id) \/ ~IsSome(row.code_insee) \/ ~IsSome(row.wkb)
            THEN [ok |-> FALSE, value |-> <<>>]
            ELSE IF Unwrap(row.wkb).kind = "Invalid"
            THEN [ok |-> FALSE, value |-> <<>>]
            ELSE IF Unwrap(row.wkb).kind = "Point"
            THEN load_addresses_rows(Tail(rows),
                     Append(acc, AddressInput(Unwrap(row.id), Unwrap(row.code_insee),
                                              Unwrap(row.wkb).point, row.existing_link)))
            ELSE load_addresses_rows(Tail(rows), acc)

\* load_addresses (loader.rs 61-105)
load_addresses(file) ==
    IF ~IsSome(file) THEN [ok |-> FALSE, value |-> <<>>]
    ELSE load_addresses_rows(Unwrap(file), <<>>)

(***************************************************************************)
(* step_match (pipeline/match_step.rs) and run_link (link_mode.rs)         *)
(***************************************************************************)
\* MatchWriter::new(&output_path, 10000)
STEP_MATCH_BATCH_SIZE == 10000

\* the configuration handed to the matcher, at the scale of the coordinates
\* of the model
StepConfig == MatchConfig(M2(9), M2(30), M2(1))

\* the arguments of `link`
LinkArgs(batch_size, filter_commune, limit_addresses) ==
    [command |-> "link", batch_size |-> batch_size, quick_qa |-> FALSE,
     filter_commune |-> filter_commune, limit_addresses |-> limit_addresses]

\* the arguments of step_match, called by run_pipeline
StepMatchArgs(quick_qa, filter_commune, limit_addresses) ==
    [command |-> "pipeline", batch_size |-> STEP_MATCH_BATCH_SIZE, quick_qa |-> quick_qa,
     filter_commune |-> filter_commune, limit_addresses |-> limit_addresses]

\* the frame of a step that has not begun
StepFrame(at) ==
    [pc |-> at, filtered |-> FALSE, empty |-> FALSE, next |-> 1, matcher_runs |-> 0,
     io_failed |-> FALSE, result |-> "none"]

\* `return Err(..)` or a `?` that propagates
StepErr(frame) == [frame EXCEPT !.pc = "done", !.result = "Err"]
StepOk(frame) == [frame EXCEPT !.pc = "done", !.result = "Ok"]

\* retain(|x| x.code_insee == *c)
Retain(rows, c) == SelectSeq(rows, LAMBDA x : x.code_insee = c)

\* match_step.rs 49-52, link_mode.rs 57-60
FilterCommune(rows, filter_commune) ==
    IF IsSome(filter_commune) THEN Retain(rows, Unwrap(filter_commune)) ELSE rows

\* match_step.rs 53-57, link_mode.rs 68-73
LimitAddresses(rows, limit_addresses) ==
    IF IsSome(limit_addresses) /\ Len(rows) > Unwrap(limit_addresses)
    THEN SubSeq(rows, 1, Unwrap(limit_addresses))
    ELSE rows

\* the emptiness test written with `&&`
IsEmptyInputsBoth(ps, as) == ps = <<>> /\ as = <<>>

\* parcels.is_empty() || addresses.is_empty()
IsEmptyInputs(ps, as) == ps = <<>> \/ as = <<>>

matcher_idle ==
    /\ num_threads = 1
    /\ pc = "none"
    /\ preexisting_map = <<>>
    /\ unit_status = <<>>
    /\ step1_results = <<>>
    /\ step2_results = <<>>
    /\ step3_local = <<>>
    /\ step3_results = <<>>
    /\ parcel_has_match = <<>>
    /\ parcels_without_match_indices = <<>>

\* a department, or a `link` run, about to be matched
InitStep ==
    /\ args \in {LinkArgs(b, f, l) : b \in 0..MaxBatchSize, f \in {None, Some("01002")},
                                    l \in {None, Some(0), Some(1)}}
            \cup {StepMatchArgs(q, f, l) : q \in BOOLEAN, f \in {None, Some("01002")},
                                           l \in {None, Some(0), Some(1)}}
    /\ staging \in [parcels : StagingFiles(RawParcelRows, MaxParcels),
                    addresses : StagingFiles(RawAddressRows, MaxAddrs)]
    /\ output_file \in IF args.command = "pipeline" THEN {NoFile, EarlierFile} ELSE {NoFile}
    /\ step = StepFrame("start")
    /\ writer = None
    /\ parcels = <<>>
    /\ addresses = <<>>
    /\ config = StepConfig
    /\ address_tree = <<>>
    /\ parcel_tree = <<>>
    /\ all_matches = <<>>
    /\ matcher_idle
    /\ process = NotRunning
    /\ batch = NotRunning
    /\ aggregate = NotRunning
    /\ analyze = NotRunning
    /\ qa = NotRunning

\* writer.rs: a MatchWriter about to be made for any batch_size and fed any
\* sequence of records
WriterRecords ==
    {MatchOutput_new(<<"a", "1">>, Some(<<"P">>), 0, "PreExisting"),
     MatchOutput_new(<<"a", "2">>, Some(<<"P">>), M2(2), "BorderNear"),
     MatchOutput_new(<<"a", "7">>, None, 0, "None")}

RECURSIVE SeqsUpTo(_, _)
SeqsUpTo(S, n) ==
    IF n = 0 THEN {<<>>}
    ELSE LET shorter == SeqsUpTo(S, n - 1)
         IN shorter \cup {Append(q, x) : q \in {t \in shorter : Len(t) = n - 1}, x \in S}

InitWriter ==
    /\ args \in {LinkArgs(b, None, None) : b \in 0..MaxBatchSize}
    /\ staging = NotRunning
    /\ output_file \in {NoFile, EarlierFile}
    /\ step = StepFrame("new")
    /\ writer = None
    /\ parcels = <<>>
    /\ addresses = <<>>
    /\ config = StepConfig
    /\ address_tree = <<>>
    /\ parcel_tree = <<>>
    /\ all_matches \in SeqsUpTo(WriterRecords, MaxWrites)
    /\ matcher_idle
    /\ process = NotRunning
    /\ batch = NotRunning
    /\ aggregate = NotRunning
    /\ analyze = NotRunning
    /\ qa = NotRunning

step_rest == <<matcher_locals, num_threads, main_vars, qa>>
matcher_io == <<parcels, addresses, config, address_tree, parcel_tree, all_matches>>

\* match_step.rs 19-35: the quick_qa shortcut and the existence test
StepMatchBegin ==
    /\ step.pc = "start"
    /\ args.command = "pipeline"
    /\ step' = IF args.quick_qa /\ output_file.exists THEN StepOk(step)
               ELSE IF ~IsSome(staging.parcels) \/ ~IsSome(staging.addresses) THEN StepErr(step)
               ELSE [step EXCEPT !.pc = "load"]
    /\ UNCHANGED <<args, staging, writer, output_file, matcher_io, step_rest>>

\* link_mode.rs 31-33: create_dir_all of the parent of the output
RunLinkBegin ==
    /\ step.pc = "start"
    /\ args.command = "link"
    /\ \E io_ok \in BOOLEAN :
          step' = IF io_ok THEN [step EXCEPT !.pc = "load"]
                  ELSE StepErr([step EXCEPT !.io_failed = TRUE])
    /\ UNCHANGED <<args, staging, writer, output_file, matcher_io, step_rest>>

\* match_step.rs 38-39, link_mode.rs 36-37
Load ==
    /\ step.pc = "load"
    /\ LET ps == load_parcels(staging.parcels)
           as == load_addresses(staging.addresses)
       IN IF ps.ok /\ as.ok
          THEN /\ parcels' = ps.value
               /\ addresses' = as.value
               /\ step' = [step EXCEPT !.pc = "filter"]
          ELSE /\ step' = StepErr(step)
               /\ UNCHANGED <<parcels, addresses>>
    /\ UNCHANGED <<args, staging, writer, output_file, config, address_tree, parcel_tree,
                   all_matches, step_rest>>

\* match_step.rs 49-59, link_mode.rs 57-75: filter, limit, the emptiness
\* test; the indices the matcher will build are fixed by the vectors
FilterLimit ==
    /\ step.pc = "filter"
    /\ LET ps == FilterCommune(parcels, args.filter_commune)
           as == LimitAddresses(FilterCommune(addresses, args.filter_commune),
                                args.limit_addresses)
       IN /\ parcels' = ps
          /\ addresses' = as
          /\ address_tree' \in PermSeqs(Len(as))
          /\ parcel_tree' \in PermSeqs(Len(ps))
          /\ step' = IF IsEmptyInputs(ps, as)
                     THEN [step EXCEPT !.pc = "new", !.filtered = TRUE, !.empty = TRUE]
                     ELSE [step EXCEPT !.pc = "match", !.filtered = TRUE]
    /\ UNCHANGED <<args, staging, writer, output_file, config, all_matches, step_rest>>

\* match_step.rs 78, link_mode.rs 92: the matcher is called on the vectors
CallMatcher ==
    /\ step.pc = "match"
    /\ pc' = "start"
    /\ step' = [step EXCEPT !.pc = "matching", !.matcher_runs = @ + 1]
    /\ UNCHANGED <<args, staging, writer, output_file, matcher_io, num_threads, preexisting_map,
                   unit_status, step1_results, step2_results, step3_local, step3_results,
                   parcel_has_match, parcels_without_match_indices, main_vars, qa>>

\* the matcher has returned `matches`
MatcherReturn ==
    /\ step.pc = "matching"
    /\ pc = "done"
    /\ step' = [step EXCEPT !.pc = "new"]
    /\ UNCHANGED <<args, staging, writer, output_file, matcher_io, step_rest>>

\* match_step.rs 61-64 and 86-90, link_mode.rs 77 and 109: create_dir_all and
\* MatchWriter::new.  io: every call succeeds, or the directory or the file
\* cannot be created, or ArrowWriter::try_new fails on the created file.
NewWriter ==
    /\ step.pc = "new"
    /\ \E io \in {"ok", "create", "try_new"} :
          CASE io = "ok" ->
                  /\ output_file' = ArrowWriter_try_new(File_create)
                  /\ writer' = Some(MatchWriter_new(args.batch_size))
                  /\ step' = [step EXCEPT !.pc = IF step.empty THEN "close" ELSE "write"]
            [] io = "create" ->
                  /\ step' = StepErr([step EXCEPT !.io_failed = TRUE])
                  /\ UNCHANGED <<output_file, writer>>
            [] io = "try_new" ->
                  /\ output_file' = File_create
                  /\ step' = StepErr([step EXCEPT !.io_failed = TRUE])
                  /\ UNCHANGED writer
    /\ UNCHANGED <<args, staging, matcher_io, step_rest>>

\* match_step.rs 91-93, link_mode.rs 110-112: one turn of `for m in matches`
WriteNext ==
    /\ step.pc = "write"
    /\ step.next <= Len(all_matches)
    /\ \E io_ok \in BOOLEAN :
          LET r == MatchWriter_write(Unwrap(writer), output_file, all_matches[step.next], io_ok)
          IN /\ output_file' = r.file
             /\ writer' = IF r.ok THEN Some(r.writer) ELSE None
             /\ step' = IF r.ok THEN [step EXCEPT !.next = @ + 1]
                        ELSE StepErr([step EXCEPT !.io_failed = TRUE])
    /\ UNCHANGED <<args, staging, matcher_io, step_rest>>

\* match_step.rs 65-66 and 94-102, link_mode.rs 78-79 and 113-118: close and
\* the return of the step
Close ==
    /\ \/ step.pc = "close"
       \/ step.pc = "write" /\ step.next > Len(all_matches)
    /\ \E io_flush \in BOOLEAN : \E io_close \in BOOLEAN :
          LET r == MatchWriter_close(Unwrap(writer), output_file, io_flush, io_close)
          IN /\ output_file' = r.file
             /\ writer' = None
             /\ step' = IF r.ok THEN StepOk(step)
                        ELSE StepErr([step EXCEPT !.io_failed = TRUE])
    /\ UNCHANGED <<args, staging, matcher_io, step_rest>>

NextWriter ==
    \/ NewWriter
    \/ WriteNext
    \/ Close

NextStep ==
    \/ StepMatchBegin
    \/ RunLinkBegin
    \/ Load
    \/ FilterLimit
    \/ CallMatcher
    \/ Next
    \/ MatcherReturn
    \/ NextWriter

SpecWriter == InitWriter /\ [][NextWriter]_vars
SpecStep == InitStep /\ [][NextStep]_vars

(***************************************************************************)
(* BatchState (pipeline/state.rs)                                          *)
(***************************************************************************)
MaxDepts == 2

FailedDept(dept, error) == [dept |-> dept, error |-> error]

\* BatchState::new (started_at is a timestamp nothing reads)
BatchState_new == [completed |-> {}, failed |-> <<>>]

\* failed.iter().position(|f| f.dept == dept): 0 when there is none
Position(failed, dept) ==
    IF \E k \in DOMAIN failed : failed[k].dept = dept
    THEN CHOOSE k \in DOMAIN failed :
            /\ failed[k].dept = dept
            /\ \A j \in 1..(k - 1) : failed[j].dept # dept
    ELSE 0

\* Vec::remove(pos)
RemoveAt(q, pos) == SubSeq(q, 1, pos - 1) \o SubSeq(q, pos + 1, Len(q))

\* mark_completed that leaves the failed list as it is
mark_completedKeep(state, dept) ==
    [completed |-> state.completed \cup {dept}, failed |-> state.failed]

\* BatchState::mark_completed (state.rs 48-54)
mark_completed(state, dept) ==
    LET pos == Position(state.failed, dept)
    IN [completed |-> state.completed \cup {dept},
        failed |-> IF pos # 0 THEN RemoveAt(state.failed, pos) ELSE state.failed]

\* mark_failed that leaves the state as it is
mark_failedNot(state, dept, err) == state

\* BatchState::mark_failed (state.rs 56-68)
mark_failed(state, dept, err) ==
    LET pos == Position(state.failed, dept)
    IN [completed |-> state.completed \ {dept},
        failed |-> IF pos # 0 THEN [state.failed EXCEPT ![pos].error = err]
                   ELSE Append(state.failed, FailedDept(dept, err))]

\* is_completed that finds no department
is_completedNever(state, dept) == FALSE

\* BatchState::is_completed
is_completed(state, dept) == dept \in state.completed

(***************************************************************************)
(* step_aggregate (pipeline/aggregate.rs)                                  *)
(***************************************************************************)
\* a per-department file of the output directory, by the parts of its name
OutFile(prefix, dept, suffix) == [prefix |-> prefix, dept |-> dept, suffix |-> suffix]

\* the four files step_qa leaves for a department that the aggregate reads
QaFiles(dept) ==
    {OutFile("parcelles_adresses_", dept, ".parquet"),
     OutFile("qa_distance_tiers_", dept, ".csv"),
     OutFile("qa_precision_", dept, ".csv"),
     OutFile("qa_worst_communes_", dept, ".csv")}

\* aggregate.rs 11-31: the files of the directory with the prefix and suffix
list_matching_files(dir, prefix, suffix) ==
    {f \in dir : f.prefix = prefix /\ f.suffix = suffix}

\* read_parquet / read_csv over a glob, as the SQL engine answers it: the
\* query fails when no file matches the pattern
ReadGlob(dir, prefix, suffix) == list_matching_files(dir, prefix, suffix) # {}

AggregateFrame(files) ==
    [pc |-> "open", files |-> files, generated |-> <<>>, missing_inputs |-> <<>>,
     written |-> {}, engine_failed |-> FALSE, partial |-> FALSE, result |-> "none"]

AggregateErr(frame) == [frame EXCEPT !.pc = "done", !.result = "Err"]

\* A block `if inputs.is_empty() { missing_inputs.push(pattern) } else
\* { conn.execute(COPY .. TO target)?; generated.push(target) }`; the first
\* block (aggregate.rs 48-70) pushes nothing to `generated`.
GuardedBlock(frame, prefix, suffix, target, listed, then, engine_ok) ==
    IF list_matching_files(frame.files, prefix, suffix) = {}
    THEN [frame EXCEPT !.pc = then,
                       !.missing_inputs = Append(@, <<prefix, "*", suffix>>)]
    ELSE IF ~engine_ok
    THEN AggregateErr([frame EXCEPT !.engine_failed = TRUE])
    ELSE IF ~ReadGlob(frame.files, prefix, suffix)
    THEN AggregateErr(frame)
    ELSE [frame EXCEPT !.pc = then, !.written = @ \cup {target},
                       !.generated = IF listed THEN Append(@, target) ELSE @]

\* aggregate.rs 71-87: the COPY to france_parcelles_adresses.csv, run
\* whether or not an input exists
BareBlock(frame, prefix, suffix, target, then, engine_ok) ==
    IF ~engine_ok
    THEN AggregateErr([frame EXCEPT !.engine_failed = TRUE])
    ELSE IF ~ReadGlob(frame.files, prefix, suffix)
    THEN AggregateErr(frame)
    ELSE [frame EXCEPT !.pc = then, !.written = @ \cup {target}]

\* aggregate.rs 183-188
AggregateReturn(frame) ==
    [frame EXCEPT !.pc = "done", !.result = "Ok", !.partial = (frame.missing_inputs # <<>>)]

agg_rest == <<parcels, addresses, config, address_tree, parcel_tree, num_threads, matcher_locals,
              all_matches, step_vars, process, analyze, qa>>

\* aggregate.rs 34-45: the directory exists (run_pipeline made it); the
\* in-memory connection is opened
AggregateOpen ==
    /\ aggregate.pc = "open"
    /\ \E engine_ok \in BOOLEAN :
          aggregate' = IF engine_ok THEN [aggregate EXCEPT !.pc = "pa_parquet"]
                       ELSE AggregateErr([aggregate EXCEPT !.engine_failed = TRUE])
    /\ UNCHANGED <<batch, agg_rest>>

\* aggregate.rs 47-70
AggregateParcellesAdressesParquet ==
    /\ aggregate.pc = "pa_parquet"
    /\ \E engine_ok \in BOOLEAN :
          aggregate' = GuardedBlock(aggregate, "parcelles_adresses_", ".parquet",
                                    "france_parcelles_adresses.parquet", FALSE, "pa_csv",
                                    engine_ok)
    /\ UNCHANGED <<batch, agg_rest>>

\* aggregate.rs 71-87
AggregateParcellesAdressesCsv ==
    /\ aggregate.pc = "pa_csv"
    /\ \E engine_ok \in BOOLEAN :
          aggregate' = BareBlock(aggregate, "parcelles_adresses_", ".parquet",
                                 "france_parcelles_adresses.csv", "tiers", engine_ok)
    /\ UNCHANGED <<batch, agg_rest>>

\* aggregate.rs 89-122
AggregateDistanceTiers ==
    /\ aggregate.pc = "tiers"
    /\ \E engine_ok \in BOOLEAN :
          aggregate' = GuardedBlock(aggregate, "qa_distance_tiers_", ".csv",
                                    "national_qa_distance_tiers.csv", TRUE, "precision",
                                    engine_ok)
    /\ UNCHANGED <<batch, agg_rest>>

\* aggregate.rs 123-152
AggregatePrecision ==
    /\ aggregate.pc = "precision"
    /\ \E engine_ok \in BOOLEAN :
          aggregate' = GuardedBlock(aggregate, "qa_precision_", ".csv",
                                    "national_qa_precision.csv", TRUE, "worst", engine_ok)
    /\ UNCHANGED <<batch, agg_rest>>

\* aggregate.rs 153-189
AggregateWorstCommunes ==
    /\ aggregate.pc = "worst"
    /\ \E engine_ok \in BOOLEAN :
          LET after == GuardedBlock(aggregate, "qa_worst_communes_", ".csv",
                                    "national_worst_communes_top100.csv", TRUE, "return",
                                    engine_ok)
          IN  aggregate' = IF after.pc = "done" THEN after ELSE AggregateReturn(after)
    /\ UNCHANGED <<batch, agg_rest>>

(***************************************************************************)
(* run_pipeline (pipeline/mod.rs)                                          *)
(***************************************************************************)
\* the first n of the files step_qa writes for a department, in the order
\* it writes them (qa.rs 69-334)
QaWritten(dept, n) ==
    (IF n >= 1 THEN {OutFile("parcelles_adresses_", dept, ".parquet")} ELSE {}) \cup
    (IF n >= 2 THEN {OutFile("qa_distance_tiers_", dept, ".csv")} ELSE {}) \cup
    (IF n >= 3 THEN {OutFile("qa_precision_", dept, ".csv")} ELSE {}) \cup
    (IF n >= 4 THEN {OutFile("qa_worst_communes_", dept, ".csv")} ELSE {})

\* batch_state.json on disk
StateFile(exists, parses, state) == [exists |-> exists, parses |-> parses, state |-> state]

\* BatchState::load (state.rs 31-39)
BatchState_load(file) ==
    IF ~file.exists THEN [ok |-> TRUE, state |-> BatchState_new]
    ELSE IF ~file.parses THEN [ok |-> FALSE, state |-> BatchState_new]
    ELSE [ok |-> TRUE, state |-> file.state]

\* BatchState::save (state.rs 41-46): File::create truncates, then the state
\* is serialised
BatchState_save(state, io_ok) ==
    IF io_ok THEN StateFile(TRUE, TRUE, state) ELSE StateFile(TRUE, FALSE, BatchState_new)

\* what an earlier run may have left: the state file and the output directory
EarlierRuns ==
    {[state_file |-> StateFile(FALSE, FALSE, BatchState_new), output |-> {}],
     [state_file |-> StateFile(TRUE, FALSE, BatchState_new), output |-> {}],
     [state_file |-> StateFile(TRUE, TRUE, mark_completed(BatchState_new, "01")),
      output |-> QaFiles("01")],
     [state_file |-> StateFile(TRUE, TRUE, mark_failed(BatchState_new, "01", "e")),
      output |-> QaWritten("01", 1)]}

PipelineArgs(command, strict, resume, departments) ==
    [command |-> command, strict |-> strict, resume |-> resume, departments |-> departments]

PipelineFrame(earlier) ==
    [pc |-> "setup", state |-> BatchState_new, loaded |-> BatchState_new,
     state_file |-> earlier.state_file, output |-> earlier.output, depts |-> <<>>, idx |-> 0, res |-> "none", log |-> <<>>,
     result |-> "none", cause |-> "none", partial |-> FALSE, aggregate_partial |-> FALSE]

PipelineErr(frame, cause) == [frame EXCEPT !.pc = "done", !.result = "Err", !.cause = cause]

\* the message mark_failed is given (mod.rs 201, 206)
ErrorText(res) == IF res = "Panic" THEN "Panic" ELSE "e"

\* the match on the closure's result (mod.rs 161-209), before state.save
RecordResult(state, dept, res) ==
    IF res = "Ok" THEN mark_completed(state, dept)
    ELSE mark_failed(state, dept, ErrorText(res))

\* mod.rs 222-225
PipelinePartial(state, aggregate_partial) == Len(state.failed) > 0 \/ aggregate_partial

main_rest == <<parcels, addresses, config, address_tree, parcel_tree, num_threads, matcher_locals,
               all_matches, step_vars, qa>>

\* mod.rs 47-85: directories, state load and save, department list
PipelineSetup ==
    /\ batch.pc = "setup"
    /\ \E io_dirs \in BOOLEAN, io_save \in BOOLEAN :
          LET loaded == IF args.resume THEN BatchState_load(batch.state_file)
                        ELSE [ok |-> TRUE, state |-> BatchState_new]
          IN  batch' = IF ~io_dirs THEN PipelineErr(batch, "setup")
                       ELSE IF ~loaded.ok THEN PipelineErr(batch, "load")
                       ELSE IF ~io_save
                       THEN PipelineErr([batch EXCEPT !.state = loaded.state,
                                                      !.loaded = loaded.state,
                                                      !.state_file = BatchState_save(loaded.state, FALSE)],
                                        "save")
                       ELSE [batch EXCEPT !.pc = "loop", !.state = loaded.state,
                                          !.loaded = loaded.state,
                                          !.state_file = BatchState_save(loaded.state, TRUE),
                                          !.depts = args.departments, !.idx = 1]
    /\ UNCHANGED <<args, process, aggregate, analyze, main_rest>>

\* mod.rs 92-95: a completed department of a resumed run is skipped
DeptSkip ==
    /\ batch.pc = "loop"
    /\ batch.idx <= Len(batch.depts)
    /\ args.resume /\ is_completed(batch.state, batch.depts[batch.idx])
    /\ batch' = [batch EXCEPT !.idx = @ + 1, !.log = Append(@, "skipped")]
    /\ UNCHANGED <<args, process, aggregate, analyze, main_rest>>

\* mod.rs 104-159: the closure under catch_unwind; download, prepare, match
\* and QA either all succeed, or one of them returns an error or panics,
\* QA possibly after it wrote some of its files
DeptRun ==
    /\ batch.pc = "loop"
    /\ batch.idx <= Len(batch.depts)
    /\ ~(args.resume /\ is_completed(batch.state, batch.depts[batch.idx]))
    /\ \E res \in {"Ok", "Err", "Panic"}, n \in 0..4 :
          /\ res = "Ok" => n = 4
          /\ batch' = [batch EXCEPT !.pc = "record", !.res = res,
                                    !.output = @ \cup QaWritten(batch.depts[batch.idx], n)]
    /\ UNCHANGED <<args, process, aggregate, analyze, main_rest>>

\* mod.rs 161-209: the result is recorded in the state and the state saved
DeptRecord ==
    /\ batch.pc = "record"
    /\ \E io_save \in BOOLEAN :
          LET state == RecordResult(batch.state, batch.depts[batch.idx], batch.res)
              saved == [batch EXCEPT !.state = state,
                                     !.state_file = BatchState_save(state, io_save)]
          IN  batch' = IF ~io_save THEN PipelineErr(saved, "save")
                       ELSE [saved EXCEPT !.pc = "loop", !.idx = @ + 1,
                                          !.log = Append(@, batch.res)]
    /\ UNCHANGED <<args, process, aggregate, analyze, main_rest>>

\* mod.rs 214: the call of step_aggregate once the list is exhausted
PipelineAggregate ==
    /\ batch.pc = "loop"
    /\ batch.idx > Len(batch.depts)
    /\ batch' = [batch EXCEPT !.pc = "aggregating"]
    /\ aggregate' = AggregateFrame(batch.output)
    /\ UNCHANGED <<args, process, analyze, main_rest>>

\* mod.rs 214-257: `?` on the aggregate's result, then the outcome
PipelineReturn ==
    /\ batch.pc = "aggregating"
    /\ aggregate.pc = "done"
    /\ batch' = IF aggregate.result = "Err" THEN PipelineErr(batch, "aggregate")
                ELSE [batch EXCEPT !.pc = "done", !.result = "Ok",
                                   !.aggregate_partial = aggregate.partial,
                                   !.partial = PipelinePartial(batch.state, aggregate.partial)]
    /\ UNCHANGED <<args, process, aggregate, analyze, main_rest>>

(***************************************************************************)
(* run_analyze (analysis/mod.rs)                                           *)
(***************************************************************************)
MaxManifestRows == 2

\* a row of the departments manifest: three nullable string cells
ManifestRow(dept, region, nom) == [dept |-> dept, region |-> region, nom |-> nom]

ManifestRows ==
    {ManifestRow(Some(<<"0", "1">>), Some(<<"R">>), Some(<<"N">>)),
     ManifestRow(Some(<<" ", "0", "2">>), Some(<<"R", " ">>), Some(<<"N">>)),
     ManifestRow(None, Some(<<"R">>), Some(<<"N">>)),
     ManifestRow(Some(<<"0", "1">>), Some(<<" ", " ">>), Some(<<"N">>)),
     ManifestRow(Some(<<"0", "2">>), Some(<<"R">>), None),
     ManifestRow(Some(<<>>), Some(<<"R">>), Some(<<"N">>))}

\* col.get(i).map(str::trim).filter(|s| !s.is_empty())
Cell(c) ==
    IF IsSome(c) /\ Trim(Unwrap(c)) # <<>> THEN Some(Trim(Unwrap(c))) ELSE None

\* a per-department file run_analyze looks for
DeptFile(kind, dept_code) == [kind |-> kind, dept |-> dept_code]

DeptCodes == {<<"0", "1">>, <<"0", "2">>}

DeptFiles == {DeptFile(kind, d) : kind \in {"matches", "parcelles", "qa_distance_tiers"},
                                  d \in DeptCodes}

MaxAnalyzeRows == 2
COVERAGE_THRESHOLD_M == 1500

\* a record of a matches file as run_analyze selects it (mod.rs 218-224;
\* confidence is not modelled); distance_m in whole metres
AnalyzeMatchRow(id_parcelle, id_ban, match_type, distance_m) ==
    [id_parcelle |-> id_parcelle, id_ban |-> id_ban, match_type |-> match_type,
     distance_m |-> distance_m]

AnalyzeMatchRows ==
    {AnalyzeMatchRow(Some("P"), <<"a", "2">>, "BorderNear", Some(5)),
     AnalyzeMatchRow(Some("P"), <<"a", "1">>, "BorderNear", Some(5)),
     AnalyzeMatchRow(Some("P"), <<"a", "1">>, "Inside", Some(0)),
     AnalyzeMatchRow(Some("P"), <<"a", "2">>, "PreExisting", Some(0)),
     AnalyzeMatchRow(Some("Q"), <<"a", "2">>, "FallbackNearest", Some(1501)),
     AnalyzeMatchRow(None, <<"a", "3">>, "None", None)}

\* the records of the matches file of every department: any table for
\* department 01, one parcel matched beyond the threshold for the others
AnalyzeTables ==
    {[d \in DeptCodes |->
         IF d = <<"0", "1">> THEN table
         ELSE <<AnalyzeMatchRow(Some("Q"), <<"a", "2">>, "FallbackNearest", Some(1501))>>] :
        table \in SeqsUpTo(AnalyzeMatchRows, MaxAnalyzeRows)}

\* the matches files of a run in which none holds a record
EmptyTables == [d \in DeptCodes |-> <<>>]

\* what a source of the parcel count holds: the number of ids of the
\* staging parquet, or total_parcels of the first row of the QA tiers
ParcelCount(file) == IF file.kind = "parcelles" THEN 3 ELSE 2

\* the priority with every type at 0
PriorityExprFlat(match_type) == 0

\* mod.rs 198-212
priority_expr(match_type) ==
    CASE match_type = "PreExisting" -> 0
      [] match_type = "Inside" -> 1
      [] match_type = "BorderNear" -> 2
      [] match_type = "FallbackNearest" -> 3
      [] OTHER -> 100

\* mod.rs 226-229: the order of the sort on prio, distance_m, id_ban within
\* one id_parcelle (ascending, a null distance first)
SortsBefore(a, b) ==
    \/ priority_expr(a.match_type) < priority_expr(b.match_type)
    \/ /\ priority_expr(a.match_type) = priority_expr(b.match_type)
       /\ \/ ~IsSome(a.distance_m) /\ IsSome(b.distance_m)
          \/ /\ IsSome(a.distance_m) /\ IsSome(b.distance_m)
             /\ Unwrap(a.distance_m) < Unwrap(b.distance_m)
          \/ /\ a.distance_m = b.distance_m
             /\ StrLess(a.id_ban, b.id_ban)

\* mod.rs 216-231: the records with a parcel id, sorted, the first of every
\* id_parcelle kept; best maps a parcel id to the record kept so far
RECURSIVE best_df(_, _)
best_df(matches, best) ==
    IF matches = <<>> THEN {best[id] : id \in DOMAIN best}
    ELSE LET m == Head(matches)
         IN  IF ~IsSome(m.id_parcelle) THEN best_df(Tail(matches), best)
             ELSE LET id == Unwrap(m.id_parcelle)
                  IN  best_df(Tail(matches),
                              IF id \in DOMAIN best /\ ~SortsBefore(m, best[id]) THEN best
                              ELSE [x \in DOMAIN best \cup {id} |->
                                       IF x = id THEN m ELSE best[x]])

\* mod.rs 234-252: the number of best records of every match type other
\* than None
dept_dist(best) ==
    [t \in {r.match_type : r \in best} \ {"None"} |->
        Cardinality({r \in best : r.match_type = t})]

\* mod.rs 255
RECURSIVE SumValues(_)
SumValues(f) ==
    IF DOMAIN f = {} THEN 0
    ELSE LET k == CHOOSE x \in DOMAIN f : TRUE
         IN  f[k] + SumValues([x \in DOMAIN f \ {k} |-> f[x]])

\* mod.rs 258-263: a comparison with a null distance keeps no record
accepted_mask(r) ==
    \/ r.match_type = "PreExisting"
    \/ r.match_type = "Inside"
    \/ IsSome(r.distance_m) /\ Unwrap(r.distance_m) <= COVERAGE_THRESHOLD_M

\* mod.rs 336-351: the entry of the region (total, matched, matched any)
RegionEntry(region_agg, region) ==
    IF region \in DOMAIN region_agg THEN region_agg[region] ELSE <<0, 0, 0>>

AnalyzeFrame(manifest, files, tables) ==
    [pc |-> "setup", manifest |-> manifest, files |-> files, tables |-> tables, i |-> 0,
     expected_departments |-> 0, invalid_manifest_rows |-> 0,
     invalid_manifest_row_numbers |-> <<>>, skipped_missing_matches |-> 0,
     skipped_missing_parcels |-> 0, analyzed |-> 0, read |-> {},
     missing_matches_departments |-> <<>>, missing_parcels_departments |-> <<>>,
     departement_details |-> <<>>,
     national_total_p |-> 0, national_matched_p |-> 0, national_matched_any |-> 0,
     region_agg |-> <<>>,
     partial |-> FALSE, result |-> "none"]

AnalyzeErr(frame) == [frame EXCEPT !.pc = "done", !.result = "Err"]

\* an invalid row counted without its row number
InvalidRowUnlisted(frame) ==
    [frame EXCEPT !.invalid_manifest_rows = @ + 1, !.i = @ + 1]

\* mod.rs 130-133, 139-142, 148-151
InvalidRow(frame) ==
    [frame EXCEPT !.invalid_manifest_rows = @ + 1,
                  !.invalid_manifest_row_numbers = Append(@, frame.i + 1),
                  !.i = @ + 1]

\* one iteration of the loop over the manifest (mod.rs 126-364; the
\* confidence averages and the distribution by type of the totals are not
\* modelled)
AnalyzeIteration(frame, engine_ok) ==
    LET row == frame.manifest[frame.i + 1]
        dept_code == Cell(row.dept)
        region == Cell(row.region)
        nom == Cell(row.nom)
    IN  IF ~IsSome(dept_code) \/ ~IsSome(region) \/ ~IsSome(nom) THEN InvalidRow(frame)
        ELSE
        LET d == Unwrap(dept_code)
            matches_file == DeptFile("matches", d)
            staging_parcels == DeptFile("parcelles", d)
            qa_csv == DeptFile("qa_distance_tiers", d)
            expected == [frame EXCEPT !.expected_departments = @ + 1]
        IN  IF matches_file \notin frame.files
            THEN [expected EXCEPT !.skipped_missing_matches = @ + 1,
                                  !.missing_matches_departments = Append(@, d),
                                  !.i = @ + 1]
            ELSE IF staging_parcels \notin frame.files /\ qa_csv \notin frame.files
            THEN [expected EXCEPT !.skipped_missing_parcels = @ + 1,
                                  !.missing_parcels_departments = Append(@, d),
                                  !.i = @ + 1]
            ELSE LET source == IF staging_parcels \in frame.files THEN staging_parcels
                               ELSE qa_csv
                     reading == [expected EXCEPT
                                    !.read = @ \cup {<<frame.i + 1, source>>,
                                                     <<frame.i + 1, matches_file>>}]
                     num_parcels == ParcelCount(source)
                     best == best_df(frame.tables[d], <<>>)
                     matched_any == SumValues(dept_dist(best))
                     matched_1500 == Cardinality({r \in best : accepted_mask(r)})
                     r_entry == RegionEntry(frame.region_agg, Unwrap(region))
                 IN  IF ~engine_ok THEN AnalyzeErr(reading)
                     ELSE [reading EXCEPT
                              !.departement_details =
                                  Append(@, [row |-> frame.i + 1, dept_code |-> d,
                                             region |-> Unwrap(region),
                                             num_parcels |-> num_parcels,
                                             best_df |-> best,
                                             matched_1500 |-> matched_1500,
                                             matched_any |-> matched_any]),
                              !.national_total_p = @ + num_parcels,
                              !.national_matched_p = @ + matched_1500,
                              !.national_matched_any = @ + matched_any,
                              !.region_agg =
                                  [x \in DOMAIN @ \cup {Unwrap(region)} |->
                                      IF x = Unwrap(region)
                                      THEN <<r_entry[1] + num_parcels,
                                             r_entry[2] + matched_1500,
                                             r_entry[3] + matched_any>>
                                      ELSE @[x]],
                              !.analyzed = @ + 1, !.i = @ + 1]

\* partial that also counts the invalid manifest rows
AnalyzePartialInvalid(frame) ==
    frame.skipped_missing_matches > 0 \/ frame.skipped_missing_parcels > 0
        \/ frame.invalid_manifest_rows > 0

\* mod.rs 424
AnalyzePartial(frame) ==
    frame.skipped_missing_matches > 0 \/ frame.skipped_missing_parcels > 0

\* mod.rs 79-97: the output directory is made and the manifest read
AnalyzeSetup ==
    /\ analyze.pc = "setup"
    /\ \E io_ok \in BOOLEAN :
          analyze' = IF io_ok THEN [analyze EXCEPT !.pc = "loop"] ELSE AnalyzeErr(analyze)
    /\ UNCHANGED <<args, process, batch, aggregate, main_rest>>

AnalyzeRow ==
    /\ analyze.pc = "loop"
    /\ analyze.i < Len(analyze.manifest)
    /\ \E engine_ok \in BOOLEAN : analyze' = AnalyzeIteration(analyze, engine_ok)
    /\ UNCHANGED <<args, process, batch, aggregate, main_rest>>

\* mod.rs 424-638: the summaries are written and the outcome returned
AnalyzeFinish ==
    /\ analyze.pc = "loop"
    /\ analyze.i = Len(analyze.manifest)
    /\ \E io_ok \in BOOLEAN :
          analyze' = IF io_ok
                     THEN [analyze EXCEPT !.pc = "done", !.result = "Ok",
                                          !.partial = AnalyzePartial(analyze)]
                     ELSE AnalyzeErr(analyze)
    /\ UNCHANGED <<args, process, batch, aggregate, main_rest>>

(***************************************************************************)
(* main (main.rs)                                                          *)
(***************************************************************************)
ProcessFrame == [pc |-> "running", result |-> "none", partial |-> FALSE, exit_code |-> None]

\* main.rs 25-31 and 84-90
ExitCodePlain(result) == IF result = "Err" THEN 1 ELSE 0

\* an exit code that ignores --strict
ExitCodeAlwaysStrict(result, partial, strict) ==
    IF result = "Err" THEN 1 ELSE IF partial THEN 2 ELSE 0

\* main.rs 34-56 and 60-82
ExitCodeStrict(result, partial, strict) ==
    IF result = "Err" THEN 1 ELSE IF partial /\ strict THEN 2 ELSE 0

Exited(result, partial, code) ==
    [pc |-> "exited", result |-> result, partial |-> partial, exit_code |-> Some(code)]

\* main.rs 25-31: run_link returns and the process exits
MainLink ==
    /\ process.pc = "running" /\ args.command = "link"
    /\ \E result \in {"Ok", "Err"} : process' = Exited(result, FALSE, ExitCodePlain(result))
    /\ UNCHANGED <<args, batch, aggregate, analyze, main_rest>>

\* main.rs 84-90: run_status returns and the process exits
MainStatus ==
    /\ process.pc = "running" /\ args.command = "status"
    /\ \E result \in {"Ok", "Err"} : process' = Exited(result, FALSE, ExitCodePlain(result))
    /\ UNCHANGED <<args, batch, aggregate, analyze, main_rest>>

\* main.rs 32-57
MainPipeline ==
    /\ process.pc = "running" /\ args.command = "pipeline"
    /\ batch.pc = "done"
    /\ process' = Exited(batch.result, batch.partial,
                         ExitCodeStrict(batch.result, batch.partial, args.strict))
    /\ UNCHANGED <<args, batch, aggregate, analyze, main_rest>>

\* main.rs 58-83
MainAnalyze ==
    /\ process.pc = "running" /\ args.command = "analyze"
    /\ analyze.pc = "done"
    /\ process' = Exited(analyze.result, analyze.partial,
                         ExitCodeStrict(analyze.result, analyze.partial, args.strict))
    /\ UNCHANGED <<args, batch, aggregate, analyze, main_rest>>

DeptNames == {"01", "02"}

InitMain ==
    /\ parcels = <<>> /\ addresses = <<>>
    /\ config = StepConfig
    /\ address_tree = <<>> /\ parcel_tree = <<>>
    /\ matcher_idle
    /\ all_matches = <<>>
    /\ staging = NotRunning /\ step = NotRunning /\ writer = None /\ output_file = NotRunning
    /\ qa = NotRunning
    /\ process = ProcessFrame
    /\ aggregate = NotRunning
    /\ \/ /\ args \in {PipelineArgs("pipeline", strict, resume, departments) :
                          strict \in BOOLEAN, resume \in BOOLEAN,
                          departments \in SeqsUpTo(DeptNames, MaxDepts)}
          /\ batch \in {PipelineFrame(earlier) : earlier \in EarlierRuns}
          /\ analyze = NotRunning
       \/ /\ args \in {PipelineArgs("analyze", strict, FALSE, <<>>) : strict \in BOOLEAN}
          /\ analyze \in {AnalyzeFrame(manifest, files, EmptyTables) :
                             manifest \in SeqsUpTo(ManifestRows, MaxManifestRows),
                             files \in SUBSET DeptFiles}
          /\ batch = NotRunning
       \/ /\ args \in {PipelineArgs(command, FALSE, FALSE, <<>>) : command \in {"link", "status"}}
          /\ batch = NotRunning
          /\ analyze = NotRunning

\* run_analyze over departments of two regions whose matches files hold
\* records; the files of department 02 are all there
RegionManifestRows ==
    {ManifestRow(Some(<<"0", "1">>), Some(<<"R">>), Some(<<"N">>)),
     ManifestRow(Some(<<" ", "0", "2">>), Some(<<"S", " ">>), Some(<<"N">>)),
     ManifestRow(None, Some(<<"R">>), Some(<<"N">>))}

InitAnalyze ==
    /\ parcels = <<>> /\ addresses = <<>>
    /\ config = StepConfig
    /\ address_tree = <<>> /\ parcel_tree = <<>>
    /\ matcher_idle
    /\ all_matches = <<>>
    /\ staging = NotRunning /\ step = NotRunning /\ writer = None /\ output_file = NotRunning
    /\ qa = NotRunning
    /\ process = NotRunning /\ batch = NotRunning /\ aggregate = NotRunning
    /\ args = PipelineArgs("analyze", FALSE, FALSE, <<>>)
    /\ analyze \in {AnalyzeFrame(manifest, files, tables) :
                       manifest \in SeqsUpTo(RegionManifestRows, MaxManifestRows),
                       files \in {f \in SUBSET DeptFiles :
                                     \A kind \in {"matches", "parcelles", "qa_distance_tiers"} :
                                        DeptFile(kind, <<"0", "2">>) \in f},
                       tables \in AnalyzeTables}

NextAnalyze == AnalyzeSetup \/ AnalyzeRow \/ AnalyzeFinish

SpecAnalyze == InitAnalyze /\ [][NextAnalyze]_vars

NextMain ==
    \/ PipelineSetup \/ DeptSkip \/ DeptRun \/ DeptRecord \/ PipelineAggregate
    \/ AggregateOpen \/ AggregateParcellesAdressesParquet \/ AggregateParcellesAdressesCsv
    \/ AggregateDistanceTiers \/ AggregatePrecision \/ AggregateWorstCommunes
    \/ PipelineReturn
    \/ AnalyzeSetup \/ AnalyzeRow \/ AnalyzeFinish
    \/ MainLink \/ MainStatus \/ MainPipeline \/ MainAnalyze

SpecMain == InitMain /\ [][NextMain]_vars

(***************************************************************************)
(* BatchState under any sequence of calls (pipeline/state.rs)              *)
(***************************************************************************)
MaxCalls == 4

\* the state made by new() and the calls made on it so far
CallsFrame == [pc |-> "calls", state |-> BatchState_new, calls |-> <<>>]

InitState ==
    /\ parcels = <<>> /\ addresses = <<>>
    /\ config = StepConfig
    /\ address_tree = <<>> /\ parcel_tree = <<>>
    /\ matcher_idle
    /\ all_matches = <<>>
    /\ args = NotRunning
    /\ staging = NotRunning /\ step = NotRunning /\ writer = None /\ output_file = NotRunning
    /\ qa = NotRunning
    /\ process = NotRunning /\ aggregate = NotRunning /\ analyze = NotRunning
    /\ batch = CallsFrame

CallMarkCompleted ==
    /\ batch.pc = "calls"
    /\ Len(batch.calls) < MaxCalls
    /\ \E dept \in DeptNames :
          batch' = [batch EXCEPT
                       !.state = mark_completed(@, dept),
                       !.calls = Append(@, [op |-> "mark_completed", dept |-> dept,
                                            err |-> ""])]
    /\ UNCHANGED <<args, process, aggregate, analyze, main_rest>>

CallMarkFailed ==
    /\ batch.pc = "calls"
    /\ Len(batch.calls) < MaxCalls
    /\ \E dept \in DeptNames, err \in {"e", "f"} :
          batch' = [batch EXCEPT
                       !.state = mark_failed(@, dept, err),
                       !.calls = Append(@, [op |-> "mark_failed", dept |-> dept,
                                            err |-> err])]
    /\ UNCHANGED <<args, process, aggregate, analyze, main_rest>>

NextState == CallMarkCompleted \/ CallMarkFailed

SpecState == InitState /\ [][NextState]_vars

(***************************************************************************)
(* step_qa: the distance tiers, the precision bins and the address summary *)
(* (pipeline/qa.rs)                                                        *)
(***************************************************************************)
MaxQaRows == 2
MaxQaParcels == 2
MaxQaAddrs == 2

\* a row of the matches view; distance_m in whole metres, nullable like
\* id_parcelle
QaMatchRow(id_ban, id_parcelle, match_type, distance_m) ==
    [id_ban |-> id_ban, id_parcelle |-> id_parcelle, match_type |-> match_type,
     distance_m |-> distance_m]

QaMatchRows ==
    {QaMatchRow("a1", Some("P"), "Inside", Some(0)),
     QaMatchRow("a2", Some("P"), "BorderNear", Some(5)),
     QaMatchRow("a2", Some("Q"), "BorderNear", Some(6)),
     QaMatchRow("a1", Some("Q"), "FallbackNearest", Some(1500)),
     QaMatchRow("a2", Some("R"), "FallbackNearest", Some(1501)),
     QaMatchRow("a1", Some("R"), "PreExisting", Some(0)),
     QaMatchRow("a3", None, "None", None),
     QaMatchRow("a3", None, "PreExisting", None)}

\* the ids of the addresses view
QaAddressIds == {"a1", "a2", "a3"}

\* qa.rs 113
threshold_tiers == <<5, 50, 100, 250, 500, 1000, 1500>>

\* the WHERE clause with < for <=
TierWhereStrict(row, t) ==
    /\ \/ row.match_type \in {"PreExisting", "Inside"}
       \/ (IsSome(row.distance_m) /\ Unwrap(row.distance_m) < t)
    /\ IsSome(row.id_parcelle)

\* qa.rs 137-138: WHERE (match_type IN ('PreExisting', 'Inside') OR
\* distance_m <= t) AND id_parcelle IS NOT NULL; a comparison with NULL is
\* not true
TierWhere(row, t) ==
    /\ \/ row.match_type \in {"PreExisting", "Inside"}
       \/ (IsSome(row.distance_m) /\ Unwrap(row.distance_m) <= t)
    /\ IsSome(row.id_parcelle)

\* count(DISTINCT id_parcelle) over the rows the WHERE clause keeps
RECURSIVE DistinctParcels(_, _, _)
DistinctParcels(matches, t, seen) ==
    IF matches = <<>> THEN seen
    ELSE DistinctParcels(Tail(matches), t,
                         IF TierWhere(Head(matches), t)
                         THEN seen \cup {Unwrap(Head(matches).id_parcelle)}
                         ELSE seen)

\* count::DOUBLE / total::DOUBLE * 100.0, kept as the fraction num / den;
\* with total = 0 the engine gives NULL, or with IEEE division NaN or
\* infinity
CoveragePct(count, total, ieee) ==
    IF total # 0 THEN [kind |-> "value", num |-> count * 100, den |-> total]
    ELSE IF ~ieee THEN [kind |-> "NULL", num |-> 0, den |-> 0]
    ELSE IF count = 0 THEN [kind |-> "NaN", num |-> 0, den |-> 0]
    ELSE [kind |-> "inf", num |-> 0, den |-> 0]

\* qa.rs 128-142: the row INSERTed into tiers_res for threshold t
TierRow(matches, t, total_parcels, ieee) ==
    LET count == Cardinality(DistinctParcels(matches, t, {}))
    IN  [threshold_m |-> t, total_parcels |-> total_parcels, matched_parcels |-> count,
         coverage_pct |-> CoveragePct(count, total_parcels, ieee)]

\* qa.rs 248-253: the CASE of q_prec; a comparison with NULL is not true, so
\* a NULL distance falls to the ELSE branch
PrecisionBin(distance_m) ==
    IF IsSome(distance_m) /\ Unwrap(distance_m) <= 5 THEN "0-5"
    ELSE IF IsSome(distance_m) /\ Unwrap(distance_m) <= 15 THEN "5-15"
    ELSE IF IsSome(distance_m) /\ Unwrap(distance_m) <= 50 THEN "15-50"
    ELSE ">50"

\* qa.rs 259-264 and 273-279: the bins, in the order of the ORDER BY
all_bins == <<"0-5", "5-15", "15-50", ">50">>

\* qa.rs 246-272: COUNT(*) of the BorderNear records by bin, one row for
\* every bin of all_bins (COALESCE(base.count, 0))
PrecisionRows(matches) ==
    [k \in DOMAIN all_bins |->
        [bin |-> all_bins[k],
         count |-> Cardinality({i \in DOMAIN matches :
                                   /\ matches[i].match_type = "BorderNear"
                                   /\ PrecisionBin(matches[i].distance_m) = all_bins[k]})]]

\* the CASE of q_addr with every type at the same priority
AddrPriorityFlat(match_type) == 0

\* qa.rs 358-364: the CASE match_type ... END of q_addr
AddrPriority(match_type) ==
    CASE match_type = "PreExisting" -> 0
      [] match_type = "Inside" -> 1
      [] match_type = "BorderNear" -> 2
      [] match_type = "FallbackNearest" -> 3
      [] OTHER -> 100

\* qa.rs 365-373: ORDER BY priority ASC, distance_m ASC; where the engine
\* puts a NULL distance is its default null order (nulls_first)
RankedBefore(a, b, nulls_first) ==
    \/ AddrPriority(a.match_type) < AddrPriority(b.match_type)
    \/ /\ AddrPriority(a.match_type) = AddrPriority(b.match_type)
       /\ IF IsSome(a.distance_m) /\ IsSome(b.distance_m)
          THEN Unwrap(a.distance_m) < Unwrap(b.distance_m)
          ELSE IF nulls_first THEN ~IsSome(a.distance_m) /\ IsSome(b.distance_m)
          ELSE IsSome(a.distance_m) /\ ~IsSome(b.distance_m)

\* qa.rs 353-379: best_m, the rn = 1 row of the partition of id_ban
RECURSIVE best_m(_, _, _, _)
best_m(matches, id_ban, nulls_first, best) ==
    IF matches = <<>> THEN best
    ELSE LET m == Head(matches)
         IN  best_m(Tail(matches), id_ban, nulls_first,
                    IF m.id_ban # id_ban THEN best
                    ELSE IF ~IsSome(best) \/ RankedBefore(m, Unwrap(best), nulls_first)
                    THEN Some(m)
                    ELSE best)

\* qa.rs 380-387: addresses LEFT JOIN best_m
Joined(matches, address_rows, nulls_first) ==
    [i \in DOMAIN address_rows |->
        LET bm == best_m(matches, address_rows[i], nulls_first, None)
        IN  [id_ban |-> address_rows[i],
             res_type |-> IF IsSome(bm) THEN Unwrap(bm).match_type ELSE "NONE",
             dist |-> IF IsSome(bm) THEN Unwrap(bm).distance_m ELSE None]]

\* qa.rs 388-402: the one row of qa_addresses (coverage_pct is not
\* modelled)
AddressesRow(matches, address_rows, nulls_first) ==
    LET joined == Joined(matches, address_rows, nulls_first)
        Matched(i) == joined[i].res_type # "NONE"
        Typed(t) == Cardinality({i \in DOMAIN joined : joined[i].res_type = t})
        Within(lo, hi) ==
            Cardinality({i \in DOMAIN joined :
                            /\ Matched(i)
                            /\ IsSome(joined[i].dist)
                            /\ Unwrap(joined[i].dist) > lo
                            /\ Unwrap(joined[i].dist) <= hi})
    IN  [total_addresses |-> Len(joined),
         matched_addresses |-> Cardinality({i \in DOMAIN joined : Matched(i)}),
         unmatched_addresses |-> Typed("NONE"),
         res_pre |-> Typed("PreExisting"),
         res_inside |-> Typed("Inside"),
         res_border_near |-> Typed("BorderNear"),
         res_fallback |-> Typed("FallbackNearest"),
         res_none |-> Typed("NONE"),
         dist_0_5 |-> Within(0 - F64_INFINITY, 5),
         dist_5_15 |-> Within(5, 15),
         dist_15_50 |-> Within(15, 50),
         dist_gt_50 |-> Within(50, F64_INFINITY)]

QaFrame(matches, parcel_rows, address_rows) ==
    [pc |-> "start", matches |-> matches, parcel_rows |-> parcel_rows,
     address_rows |-> address_rows, total_parcels |-> 0,
     tiers_res |-> <<>>, k |-> 1, dist_tier_pcts |-> <<>>, final_matched_parcels |-> 0,
     tiers_csv |-> <<>>, precision_csv |-> <<>>, addresses_csv |-> None,
     summary |-> None, result |-> "none"]

QaErr(frame) == [frame EXCEPT !.pc = "done", !.result = "Err"]

\* qa.rs 428-440 (avg_confidence is not modelled)
QaSummary(frame) ==
    [total_parcels |-> frame.total_parcels,
     matched_parcels |-> frame.final_matched_parcels,
     coverage_pct |-> IF frame.total_parcels > 0
                      THEN [kind |-> "value", num |-> frame.final_matched_parcels * 100,
                            den |-> frame.total_parcels]
                      ELSE [kind |-> "value", num |-> 0, den |-> 1],
     dist_tier_pcts |-> frame.dist_tier_pcts]

qa_rest == <<parcels, addresses, config, address_tree, parcel_tree, num_threads, matcher_locals,
             all_matches, step_vars, main_vars>>

\* qa.rs 24-119: the views are made, the first exports written, the parcel
\* rows counted and tiers_res created
QaBegin ==
    /\ qa.pc = "start"
    /\ \E engine_ok \in BOOLEAN :
          qa' = IF engine_ok
                THEN [qa EXCEPT !.pc = "tiers", !.total_parcels = Len(qa.parcel_rows)]
                ELSE QaErr(qa)
    /\ UNCHANGED qa_rest

\* qa.rs 125-157: one iteration: the INSERT, then the row read back; a NULL
\* coverage_pct cannot be read as f64
QaTier ==
    /\ qa.pc = "tiers"
    /\ qa.k <= Len(threshold_tiers)
    /\ \E engine_ok \in BOOLEAN, ieee \in BOOLEAN :
          LET t == threshold_tiers[qa.k]
              row == TierRow(qa.matches, t, qa.total_parcels, ieee)
              inserted == [qa EXCEPT !.tiers_res = Append(@, row)]
          IN  qa' = IF ~engine_ok THEN QaErr(qa)
                    ELSE IF row.coverage_pct.kind = "NULL" THEN QaErr(inserted)
                    ELSE [inserted EXCEPT
                             !.dist_tier_pcts = Append(@, <<t, row.coverage_pct>>),
                             !.final_matched_parcels =
                                 IF t = 1500 THEN row.matched_parcels ELSE @,
                             !.k = @ + 1]
    /\ UNCHANGED qa_rest

\* qa.rs 158-237: tiers_res is copied to the csv, then the distance
\* categories are written
QaTiersExport ==
    /\ qa.pc = "tiers"
    /\ qa.k > Len(threshold_tiers)
    /\ \E io_copy \in BOOLEAN, engine_ok \in BOOLEAN :
          qa' = IF ~io_copy THEN QaErr(qa)
                ELSE IF ~engine_ok THEN QaErr([qa EXCEPT !.tiers_csv = qa.tiers_res])
                ELSE [qa EXCEPT !.pc = "precision", !.tiers_csv = qa.tiers_res]
    /\ UNCHANGED qa_rest

\* qa.rs 239-334: qa_precision is written, then the worst communes
QaPrecision ==
    /\ qa.pc = "precision"
    /\ \E io_copy \in BOOLEAN, engine_ok \in BOOLEAN :
          qa' = IF ~io_copy THEN QaErr(qa)
                ELSE IF ~engine_ok
                THEN QaErr([qa EXCEPT !.precision_csv = PrecisionRows(qa.matches)])
                ELSE [qa EXCEPT !.pc = "addresses",
                                !.precision_csv = PrecisionRows(qa.matches)]
    /\ UNCHANGED qa_rest

\* qa.rs 336-440: qa_addresses is written and the summary returned (a
\* failure of the avg_confidence query is replaced by 0.0)
QaFinish ==
    /\ qa.pc = "addresses"
    /\ \E io_copy \in BOOLEAN, nulls_first \in BOOLEAN :
          qa' = IF ~io_copy THEN QaErr(qa)
                ELSE [qa EXCEPT !.pc = "done", !.result = "Ok",
                                !.addresses_csv =
                                    Some(AddressesRow(qa.matches, qa.address_rows,
                                                      nulls_first)),
                                !.summary = Some(QaSummary(qa))]
    /\ UNCHANGED qa_rest

InitQa ==
    /\ parcels = <<>> /\ addresses = <<>>
    /\ config = StepConfig
    /\ address_tree = <<>> /\ parcel_tree = <<>>
    /\ matcher_idle
    /\ all_matches = <<>>
    /\ args = NotRunning
    /\ staging = NotRunning /\ step = NotRunning /\ writer = None /\ output_file = NotRunning
    /\ process = NotRunning /\ batch = NotRunning /\ aggregate = NotRunning
    /\ analyze = NotRunning
    /\ qa \in {QaFrame(matches, parcel_rows, <<"a1", "a2">>) :
                  matches \in SeqsUpTo(QaMatchRows, MaxQaRows),
                  parcel_rows \in SeqsUpTo({"P", "Q"}, MaxQaParcels)}

\* step_qa over any addresses table and the parcels P, Q
InitQaAddresses ==
    /\ parcels = <<>> /\ addresses = <<>>
    /\ config = StepConfig
    /\ address_tree = <<>> /\ parcel_tree = <<>>
    /\ matcher_idle
    /\ all_matches = <<>>
    /\ args = NotRunning
    /\ staging = NotRunning /\ step = NotRunning /\ writer = None /\ output_file = NotRunning
    /\ process = NotRunning /\ batch = NotRunning /\ aggregate = NotRunning
    /\ analyze = NotRunning
    /\ qa \in {QaFrame(matches, <<"P", "Q">>, address_rows) :
                  matches \in SeqsUpTo(QaMatchRows, MaxQaRows),
                  address_rows \in SeqsUpTo(QaAddressIds, MaxQaAddrs)}

NextQa == QaBegin \/ QaTier \/ QaTiersExport \/ QaPrecision \/ QaFinish

SpecQa == InitQa /\ [][NextQa]_vars

SpecQaAddresses == InitQaAddresses /\ [][NextQa]_vars

(***************************************************************************)
(* Properties                                                              *)
(***************************************************************************)
Emitted == {all_matches[k] : k \in 1..Len(all_matches)}
ParcelsOfId(pid) == {i \in ParcelIdx : parcels[i].id = pid}
AddrsOfId(id) == {a \in AddrIdx : addresses[a].id = id}
\* exact squared distance from parcel i to address a
Dist(i, a) == distance_to_point(parcels[i].geom, addresses[a].geom)

\* C1: a FallbackNearest record (a, p, d) carries the distance of a to p,
\* and no address within fallback_max_distance_m of p is strictly closer
\* than d: window, seen-set, pruning and stopping rule keep the nearest.
C1_FallbackIsNearest ==
    \A m \in Emitted : m.match_type = "FallbackNearest" =>
        \A i \in ParcelsOfId(Unwrap(m.id_parcelle)) :
            /\ \E a \in AddrsOfId(m.id_ban) : Dist(i, a) = m.distance_m
            /\ \A b \in AddrIdx :
                   Dist(i, b) <= config.fallback_max_distance_m => Dist(i, b) >= m.distance_m

\* the returned FallbackNearest address was outside the first window while a
\* farther address within the ceiling was inside it
C1_Witness ==
    /\ pc = "done"
    /\ \E m \in Emitted : \E i \in ParcelsOfId(Unwrap(m.id_parcelle)) :
         \E a \in AddrsOfId(m.id_ban) : \E b \in AddrIdx :
            /\ m.match_type = "FallbackNearest"
            /\ ~InExpanded(parcels[i].envelope, Step3Start.r, addresses[a].geom)
            /\ InExpanded(parcels[i].envelope, Step3Start.r, addresses[b].geom)
            /\ Dist(i, b) > m.distance_m
            /\ Dist(i, b) <= config.fallback_max_distance_m

\* C2: a BorderNear record (a, p, d) has 0 < d <= address_max_distance_m, d
\* is the distance of a to p, no parcel with a distance to a in
\* (0.01, address_max_distance_m] is strictly closer, and an address has at
\* most one BorderNear record.
C2_BorderNearIsNearest ==
    /\ \A m \in Emitted : m.match_type = "BorderNear" =>
          /\ 0 < m.distance_m
          /\ m.distance_m <= config.address_max_distance_m
          /\ \A a \in AddrsOfId(m.id_ban) :
                /\ \E i \in ParcelsOfId(Unwrap(m.id_parcelle)) : Dist(i, a) = m.distance_m
                /\ \A j \in ParcelIdx :
                      (Dist(j, a) > INSIDE_EPS_M /\ Dist(j, a) <= config.address_max_distance_m)
                          => Dist(j, a) >= m.distance_m
    /\ \A k, l \in 1..Len(all_matches) :
          (/\ all_matches[k].match_type = "BorderNear"
           /\ all_matches[l].match_type = "BorderNear"
           /\ all_matches[k].id_ban = all_matches[l].id_ban) => k = l

\* an address got its BorderNear parcel while a second parcel, farther, was
\* also within the threshold
C2_Witness ==
    /\ pc = "done"
    /\ \E m \in Emitted : \E a \in AddrsOfId(m.id_ban) : \E j \in ParcelIdx :
          /\ m.match_type = "BorderNear"
          /\ Dist(j, a) > m.distance_m
          /\ Dist(j, a) <= config.address_max_distance_m

\* Tokens of a link string, stated on positions: pid is a token when some
\* maximal separator-free stretch link[i..j] is pid surrounded by blanks only
LinkSeparators == {";", "|", ","}
IsTokenOf(link, pid) ==
    /\ pid # <<>>
    /\ \E i \in 1..Len(link) + 1 : \E j \in 0..Len(link) :
          /\ i <= j
          /\ i = 1 \/ link[i - 1] \in LinkSeparators
          /\ j = Len(link) \/ link[j + 1] \in LinkSeparators
          /\ \A k \in i..j : link[k] \notin LinkSeparators
          /\ \E b \in i..j : \E e \in b..j :
                /\ SubSeq(link, b, e) = pid
                /\ link[b] # " " /\ link[e] # " "
                /\ \A k \in (i..(b - 1)) \cup ((e + 1)..j) : link[k] = " "
Linked(a, i) ==
    /\ IsSome(addresses[a].existing_link)
    /\ IsTokenOf(Unwrap(addresses[a].existing_link), parcels[i].id)
Stage1Collected == pc \in {"step2", "step3", "done"}
PreExistingCount(a, i) ==
    Cardinality({k \in 1..Len(all_matches) :
        all_matches[k] = [id_ban |-> addresses[a].id, id_parcelle |-> Some(parcels[i].id),
                          match_type |-> "PreExisting", distance_m |-> 0, confidence |-> 100]})

\* C3: once Stage 1 is collected, PreExisting(a, p) is among the records if
\* and only if p is a token of a's existing_link and the id of a parcel of
\* the department; no record of any kind names an id outside the parcel set.
C3_PreExistingIffLinked ==
    /\ Stage1Collected =>
          \A a \in AddrIdx : \A i \in ParcelIdx :
              (\E m \in Emitted : /\ m.match_type = "PreExisting"
                                  /\ m.id_ban = addresses[a].id
                                  /\ m.id_parcelle = Some(parcels[i].id))
              <=> Linked(a, i)
    /\ \A m \in Emitted :
          /\ IsSome(m.id_parcelle)
          /\ ParcelsOfId(Unwrap(m.id_parcelle)) # {}
          /\ AddrsOfId(m.id_ban) # {}
          /\ m.match_type = "PreExisting" =>
                \E a \in AddrsOfId(m.id_ban) : \E i \in ParcelsOfId(Unwrap(m.id_parcelle)) :
                    Linked(a, i)

\* a link naming a parcel of the department and, behind another separator,
\* an id that is not one: the first got its record
C3_Witness ==
    /\ pc = "done"
    /\ \E a \in AddrIdx : \E i \in ParcelIdx :
          /\ Linked(a, i)
          /\ PreExistingCount(a, i) >= 1
          /\ \E t \in {<<"Q">>, <<"P", "Q">>, <<"P">>} :
                /\ IsTokenOf(Unwrap(addresses[a].existing_link), t)
                /\ \A j \in ParcelIdx : parcels[j].id # t

\* C4 (as claimed): for every address a and parcel p of the department named
\* in a's existing_link, exactly one PreExisting(a.id, p.id, 0.0) record is
\* emitted, whatever the link string.
C4_PreExistingExactlyOnce ==
    Stage1Collected =>
        \A a \in AddrIdx : \A i \in ParcelIdx : Linked(a, i) => PreExistingCount(a, i) = 1

\* the Stage-3 units that have returned
Step3Returned == {i \in DOMAIN step3_results : pc \in {"step3", "done"} /\ unit_status[i] = "done"}

\* C5: every Inside record, of Stage 1 or of Stage 3, joins an address and
\* a parcel at most 0.01 m apart; a Stage-3 unit with a best address emits
\* Inside at distance 0 exactly when best_dist <= 0.01 and FallbackNearest
\* at distance best_dist otherwise.
C5_InsideWithinEps ==
    /\ \A m \in Emitted \cup UNION {Range(step1_results[i]) : i \in DOMAIN step1_results}
                       \cup UNION {Range(step3_results[i]) : i \in DOMAIN step3_results} :
          m.match_type = "Inside" =>
              \A a \in AddrsOfId(m.id_ban) : \A i \in ParcelsOfId(Unwrap(m.id_parcelle)) :
                  Dist(i, a) <= 1
    /\ \A i \in Step3Returned :
          LET st == step3_local[i]
              out == step3_results[i]
          IN /\ IsSome(out) <=> IsSome(st.best_idx)
             /\ IsSome(out) =>
                   /\ Unwrap(out).id_ban = addresses[Unwrap(st.best_idx)].id
                   /\ Unwrap(out).id_parcelle = Some(parcels[i].id)
                   /\ st.best_dist = Dist(i, Unwrap(st.best_idx))
                   /\ st.best_dist <= 1 =>
                         Unwrap(out).match_type = "Inside" /\ Unwrap(out).distance_m = 0
                   /\ st.best_dist > 1 =>
                         /\ Unwrap(out).match_type = "FallbackNearest"
                         /\ Unwrap(out).distance_m = st.best_dist

\* the matcher returned an Inside record of Stage 1 (address within the
\* envelope) and an Inside record that Stage 3 reclassified (address 1 cm
\* outside the envelope)
C5_Witness ==
    /\ pc = "done"
    /\ \E i \in DOMAIN step1_results : \E m \in Range(step1_results[i]) : m.match_type = "Inside"
    /\ \E i \in Step3Returned :
          /\ IsSome(step3_results[i])
          /\ Unwrap(step3_results[i]).match_type = "Inside"
          /\ step3_local[i].best_dist = 1

\* parcel ids named by the records of the Stage-1 and Stage-2 units
Stage1ParcelIds ==
    {Unwrap(m.id_parcelle) : m \in UNION {Range(step1_results[i]) : i \in DOMAIN step1_results}}
Stage2ParcelIds ==
    {Unwrap(m.id_parcelle) : m \in UNION {Range(step2_results[a]) : a \in DOMAIN step2_results}}
Stage3ParcelIds ==
    {Unwrap(m.id_parcelle) : m \in UNION {Range(step3_results[i]) : i \in DOMAIN step3_results}}
Unmatched == {i \in ParcelIdx : parcels[i].id \notin Stage1ParcelIds \cup Stage2ParcelIds}

\* C6: no Stage-3 unit exists before Stages 1 and 2 are collected; from then
\* on the Stage-3 units are exactly the parcels without a Stage-1 record and
\* not chosen by any address in Stage 2, and no parcel id of a Stage-1 or
\* Stage-2 record is the parcel id of a Stage-3 record.
C6_Stage3OnlyUnmatched ==
    /\ pc \in {"start", "step1", "step2"} =>
          step3_local = <<>> /\ step3_results = <<>> /\ parcels_without_match_indices = <<>>
    /\ pc \in {"step3", "done"} =>
          /\ Range(parcels_without_match_indices) = Unmatched
          /\ DOMAIN unit_status = Unmatched
          /\ DOMAIN step3_results = Unmatched
          /\ DOMAIN step3_local \subseteq Unmatched
          /\ Stage3ParcelIds \cap (Stage1ParcelIds \cup Stage2ParcelIds) = {}
    /\ pc = "done" =>
          \A k \in 1..Len(all_matches) :
              all_matches[k].match_type = "FallbackNearest" =>
                  \A l \in 1..Len(all_matches) :
                      all_matches[l].id_parcelle = all_matches[k].id_parcelle => l = k

\* one parcel was left out of Stage 3 only because an address chose it in
\* Stage 2 (an address within the fallback ceiling exists for it), another
\* parcel went through Stage 3 and got a record
C6_Witness ==
    /\ pc = "done"
    /\ \E i \in ParcelIdx : \E j \in ParcelIdx :
          /\ parcels[i].id \in Stage2ParcelIds \ Stage1ParcelIds
          /\ i \notin Range(parcels_without_match_indices)
          /\ j \in Range(parcels_without_match_indices)
          /\ IsSome(step3_results[j])

\* the multiset of the elements of a sequence
SeqBag(s) == [x \in Range(s) |-> Cardinality({k \in DOMAIN s : s[k] = x})]

\* The matcher run by a single thread, unit after unit in index order, as a
\* function of its arguments alone.
RECURSIVE Step3Run(_, _)
Step3Run(parcel, st) ==
    IF st.phase = "emit" THEN st ELSE Step3Run(parcel, Step3Iterate(parcel, st))
SeqStep1 == Flatten([i \in ParcelIdx |-> Step1Unit(i)])
SeqStep2 == Flatten([a \in AddrIdx |-> Step2Unit(a)])
SeqHasMatch == MarkMatched(MarkMatched([i \in ParcelIdx |-> FALSE], SeqStep1), SeqStep2)
SeqRest == SortedSeq({i \in ParcelIdx : ~SeqHasMatch[i]})
SeqStep3 ==
    Flatten([k \in 1..Len(SeqRest) |->
                Step3Emit(parcels[SeqRest[k]], Step3Run(parcels[SeqRest[k]], Step3Start))])
SequentialRun == SeqStep1 \o SeqStep2 \o SeqStep3

\* C7: the lookup built before Stage 1 depends on the arguments only, and
\* whatever the pool size and the interleaving of the units, the multiset of
\* the returned records is that of the single-threaded run.
C7_OutputIndependentOfSchedule ==
    /\ pc # "start" =>
          preexisting_map = build_preexisting_map(addresses, {parcels[i].id : i \in ParcelIdx})
    /\ pc = "done" => SeqBag(all_matches) = SeqBag(SequentialRun)

\* a run on a pool of several threads, with several units in each stage,
\* returned records of all three stages
C7_Witness ==
    /\ pc = "done"
    /\ num_threads >= 2
    /\ Len(parcels) >= 2 /\ Len(addresses) >= 2
    /\ Len(parcels_without_match_indices) >= 1
    /\ \E m \in Emitted : m.match_type \in {"PreExisting", "Inside"}
    /\ \E m \in Emitted : m.match_type = "BorderNear"
    /\ \E m \in Emitted : m.match_type = "FallbackNearest"

\* index of the parcel / address a record names
ParcelIndexOf(m) == CHOOSE i \in ParcelIdx : parcels[i].id = Unwrap(m.id_parcelle)
AddrIndexOf(m) == CHOOSE a \in AddrIdx : addresses[a].id = m.id_ban
RECURSIVE SumLen(_, _)
SumLen(f, S) ==
    IF S = {} THEN 0
    ELSE LET x == CHOOSE y \in S : TRUE IN Len(f[x]) + SumLen(f, S \ {x})

\* C8: the returned sequence is the Stage-1 records, then the Stage-2
\* records, then the Stage-3 records; the Stage-1 part by ascending parcel
\* index, the Stage-2 part by ascending address index, the Stage-3 part by
\* ascending parcel index.
C8_StagesInOrder ==
    pc = "done" =>
        LET n1 == SumLen(step1_results, DOMAIN step1_results)
            n2 == n1 + SumLen(step2_results, DOMAIN step2_results)
            n3 == n2 + SumLen(step3_results, DOMAIN step3_results)
        IN /\ Len(all_matches) = n3
           /\ \A k \in 1..n1 :
                 all_matches[k] \in Range(step1_results[ParcelIndexOf(all_matches[k])])
           /\ \A k \in 1..n1 : \A l \in k..n1 :
                 ParcelIndexOf(all_matches[k]) <= ParcelIndexOf(all_matches[l])
           /\ \A k \in (n1 + 1)..n2 :
                 step2_results[AddrIndexOf(all_matches[k])] = Some(all_matches[k])
           /\ \A k \in (n1 + 1)..n2 : \A l \in (k + 1)..n2 :
                 AddrIndexOf(all_matches[k]) < AddrIndexOf(all_matches[l])
           /\ \A k \in (n2 + 1)..n3 :
                 /\ ParcelIndexOf(all_matches[k]) \in DOMAIN step3_results
                 /\ step3_results[ParcelIndexOf(all_matches[k])] = Some(all_matches[k])
           /\ \A k \in (n2 + 1)..n3 : \A l \in (k + 1)..n3 :
                 ParcelIndexOf(all_matches[k]) < ParcelIndexOf(all_matches[l])

\* a run on several threads returned records of two parcels in Stage 1, of
\* two addresses in Stage 2, or of two parcels in Stage 3, next to records
\* of another stage
C8_Witness ==
    /\ pc = "done"
    /\ num_threads >= 2
    /\ \/ SumLen(step2_results, DOMAIN step2_results) >= 2
       \/ SumLen(step3_results, DOMAIN step3_results) >= 2
    /\ Len(all_matches) > SumLen(step2_results, DOMAIN step2_results)
    /\ Len(all_matches) > SumLen(step3_results, DOMAIN step3_results)

\* every record the matcher holds: returned, or still in the slot of a unit
AllRecords ==
    Emitted \cup UNION {Range(preexisting_map[k]) : k \in DOMAIN preexisting_map}
            \cup UNION {Range(step1_results[i]) : i \in DOMAIN step1_results}
            \cup UNION {Range(step2_results[a]) : a \in DOMAIN step2_results}
            \cup UNION {Range(step3_results[i]) : i \in DOMAIN step3_results}

\* C9: the confidence of a record is the table applied to its own
\* match_type and distance_m: PreExisting 100, Inside 90, BorderNear 80
\* below 5 m and 70 from 5 m on, FallbackNearest 50.
C9_ConfidenceTable ==
    \A m \in AllRecords :
        /\ m.match_type = "PreExisting" => m.confidence = 100
        /\ m.match_type = "Inside" => m.confidence = 90
        /\ (m.match_type = "BorderNear" /\ m.distance_m < 250000) => m.confidence = 80
        /\ (m.match_type = "BorderNear" /\ m.distance_m >= 250000) => m.confidence = 70
        /\ m.match_type = "FallbackNearest" => m.confidence = 50

\* the matcher returned a BorderNear record at exactly 5 m and one below 5 m
C9_Witness ==
    /\ pc = "done"
    /\ \E m \in Emitted : m.match_type = "BorderNear" /\ m.distance_m = 250000
    /\ \E m \in Emitted : m.match_type = "BorderNear" /\ m.distance_m < 250000

\* C10: distance_m is 0 in PreExisting and Inside records and positive in
\* BorderNear and FallbackNearest records; id_parcelle is present and
\* match_type is one of the four kinds, never the sentinel None.
C10_DistanceSignAndKinds ==
    \A m \in AllRecords :
        /\ m.match_type \in {"PreExisting", "Inside", "BorderNear", "FallbackNearest"}
        /\ m.match_type # "None"
        /\ IsSome(m.id_parcelle)
        /\ m.match_type \in {"PreExisting", "Inside"} => m.distance_m = 0
        /\ m.match_type \in {"BorderNear", "FallbackNearest"} => m.distance_m > 0

\* Stage 3 returned an Inside record for an address 1 cm away from the
\* parcel, next to a FallbackNearest record of another parcel
C10_Witness ==
    /\ pc = "done"
    /\ \E i \in Step3Returned :
          /\ IsSome(step3_results[i])
          /\ Unwrap(step3_results[i]).match_type = "Inside"
          /\ step3_local[i].best_dist = 1
          /\ Unwrap(step3_results[i]) \in Emitted
    /\ \E m \in Emitted : m.match_type = "FallbackNearest"

(***************************************************************************)
(* Properties of the writer and of the step around it                      *)
(***************************************************************************)
\* the records handed to write calls that returned Ok
Submitted == SubSeq(all_matches, 1, step.next - 1)
BatchLen(b) == Len(b.id_ban)

\* C11: for batch_size >= 1, while write calls succeed the rows of the
\* batches handed to the file writer followed by the buffered records are
\* the submitted records, each once and in submission order; after a
\* successful close the rows of the batches are exactly the submitted
\* records, nothing is left in a buffer and the file is finalized.
C11_WriterDeliversAll ==
    args.batch_size >= 1 =>
       /\ (step.pc = "write" /\ IsSome(writer)) =>
             FileRows(output_file) \o Unwrap(writer).batch_buffer = Submitted
       /\ step.result = "Ok" =>
             /\ FileRows(output_file) = all_matches
             /\ Submitted = all_matches
             /\ output_file.footer
             /\ writer = None

\* three records through a writer of batch_size 2: one batch flushed by
\* write, the third record flushed by close
C11_Witness ==
    /\ step.result = "Ok"
    /\ args.batch_size = 2
    /\ Len(all_matches) = 3
    /\ Len(output_file.batches) = 2
    /\ BatchLen(output_file.batches[2]) = 1

\* C12: for batch_size >= 1, after every write call that returned Ok the
\* buffer holds fewer than batch_size records, and every batch handed over
\* by write is a whole buffer of exactly batch_size records: the flush
\* happens when the buffer reaches batch_size, not before and not after.
C12_BufferBelowBatchSize ==
    (args.batch_size >= 1 /\ step.pc = "write" /\ IsSome(writer)) =>
       /\ Len(Unwrap(writer).batch_buffer) < args.batch_size
       /\ \A k \in DOMAIN output_file.batches :
             BatchLen(output_file.batches[k]) = args.batch_size
       /\ Len(output_file.batches) * args.batch_size + Len(Unwrap(writer).batch_buffer)
             = step.next - 1

\* three successful writes at batch_size 2: one batch out, one record buffered
C12_Witness ==
    /\ step.pc = "write"
    /\ IsSome(writer)
    /\ args.batch_size = 2
    /\ step.next = 4
    /\ Len(output_file.batches) = 1
    /\ Len(Unwrap(writer).batch_buffer) = 1

\* the vectors are those left by loading, commune filtering and limiting
Filtered == step.filtered
\* a finalized parquet with the five columns and no row
ValidEmptyFile ==
    /\ output_file.exists
    /\ output_file.created
    /\ output_file.schema = MatchSchema
    /\ output_file.batches = <<>>
    /\ output_file.footer

\* C13: once the vectors left by loading, filtering and limiting have an
\* empty side, the matcher is never called and no record is handed to a
\* writer; the step ends Ok with a finalized file of the five columns and no
\* row, and ends Err only when creating or closing that file failed.
C13_EmptyInputsWriteEmptyFile ==
    (Filtered /\ (parcels = <<>> \/ addresses = <<>>)) =>
       /\ step.matcher_runs = 0
       /\ pc = "none"
       /\ step.next = 1
       /\ output_file.batches = <<>>
       /\ (IsSome(writer) => Unwrap(writer).batch_buffer = <<>>)
       /\ step.pc = "done" =>
             \/ step.result = "Ok" /\ ValidEmptyFile
             \/ step.result = "Err" /\ step.io_failed

\* step_match loaded parcels and the address limit of 0 left no address: the
\* step returned Ok over an empty file
C13_Witness ==
    /\ Filtered
    /\ parcels # <<>>
    /\ addresses = <<>>
    /\ args.command = "pipeline"
    /\ args.limit_addresses = Some(0)
    /\ IsSome(staging.addresses) /\ Unwrap(staging.addresses) # <<>>
    /\ step.result = "Ok"
    /\ ValidEmptyFile

\* C18 (as claimed): when step_match returns an error, the call has left no
\* matches file at the output path, finished or not.
C18_NoFileLeftOnFailure ==
    (args.command = "pipeline" /\ step.result = "Err") =>
       ~(output_file.exists /\ output_file.created)

\* a row with readable columns and a geometry of the kind its file holds
SoundRow(row, kinds) ==
    /\ IsSome(row.id) /\ IsSome(row.code_insee) /\ IsSome(row.wkb)
    /\ Unwrap(row.wkb).kind \in kinds
SoundRows(rows, kinds) == SelectSeq(rows, LAMBDA row : SoundRow(row, kinds))
\* the step failed with both files present and every file-system call
\* answered: the error came out of a load
LoadFailed ==
    /\ step.result = "Err"
    /\ ~step.io_failed
    /\ IsSome(staging.parcels) /\ IsSome(staging.addresses)

\* C19 (as claimed): with both files present the two loads return Ok, and
\* the vectors hold the sound rows of the files, one entry per sound row in
\* file order, whatever defective rows stand among them.
C19_DefectiveRowDroppedAlone ==
    /\ ~LoadFailed
    /\ step.pc = "filter" =>
          LET ps == SoundRows(Unwrap(staging.parcels), {"Polygon", "MultiPolygon"})
              as == SoundRows(Unwrap(staging.addresses), {"Point"})
          IN /\ parcels = [i \in DOMAIN ps |->
                              ParcelData(Unwrap(ps[i].id), Unwrap(ps[i].code_insee),
                                         Unwrap(ps[i].wkb).rects)]
             /\ addresses = [i \in DOMAIN as |->
                                AddressInput(Unwrap(as[i].id), Unwrap(as[i].code_insee),
                                             Unwrap(as[i].wkb).point, as[i].existing_link)]
(***************************************************************************)
(* Properties of the batch: run_pipeline, step_aggregate, run_analyze,     *)
(* main                                                                    *)
(***************************************************************************)
Last(q) == q[Len(q)]

CommandResult ==
    IF args.command = "pipeline" THEN batch.result
    ELSE IF args.command = "analyze" THEN analyze.result
    ELSE process.result

CommandPartial ==
    IF args.command = "pipeline" THEN batch.partial
    ELSE IF args.command = "analyze" THEN analyze.partial
    ELSE FALSE

\* C15: the exit code is 1 exactly when the command returned an error, 2
\* exactly when a pipeline or analyze run returned Ok with partial set and
\* --strict was given, and 0 otherwise; link and status never exit 2.
C15_ExitCodes ==
    process.pc = "exited" =>
        LET code == Unwrap(process.exit_code)
        IN  /\ code \in {0, 1, 2}
            /\ code = 1 <=> CommandResult = "Err"
            /\ code = 2 <=> /\ args.command \in {"pipeline", "analyze"}
                            /\ CommandResult = "Ok" /\ CommandPartial /\ args.strict
            /\ code = 0 <=> CommandResult = "Ok" /\ ~(CommandPartial /\ args.strict)
            /\ args.command \in {"link", "status"} => code # 2

\* a strict pipeline run with a failed department exits 2
C15_Witness ==
    /\ process.pc = "exited" /\ process.exit_code = Some(2)
    /\ args.command = "pipeline" /\ Len(batch.state.failed) > 0

\* the artifact families of step_aggregate
Families ==
    {[prefix |-> "parcelles_adresses_", suffix |-> ".parquet",
      targets |-> {"france_parcelles_adresses.parquet", "france_parcelles_adresses.csv"}],
     [prefix |-> "qa_distance_tiers_", suffix |-> ".csv",
      targets |-> {"national_qa_distance_tiers.csv"}],
     [prefix |-> "qa_precision_", suffix |-> ".csv",
      targets |-> {"national_qa_precision.csv"}],
     [prefix |-> "qa_worst_communes_", suffix |-> ".csv",
      targets |-> {"national_worst_communes_top100.csv"}]}

\* C16: unless the SQL engine itself fails on existing inputs, step_aggregate
\* returns Ok; a family without input file has none of its artifacts
\* written, its pattern in missing_inputs and partial set, and every family
\* with inputs has its artifacts written.
C16_MissingFamilySkipped ==
    (aggregate.pc = "done" /\ ~aggregate.engine_failed) =>
        /\ aggregate.result = "Ok"
        /\ \A f \in Families :
              IF list_matching_files(aggregate.files, f.prefix, f.suffix) = {}
              THEN /\ f.targets \cap aggregate.written = {}
                   /\ \E k \in DOMAIN aggregate.missing_inputs :
                         aggregate.missing_inputs[k] = <<f.prefix, "*", f.suffix>>
                   /\ aggregate.partial
              ELSE f.targets \subseteq aggregate.written

InvalidManifestRow(row) ==
    ~IsSome(Cell(row.dept)) \/ ~IsSome(Cell(row.region)) \/ ~IsSome(Cell(row.nom))

\* C17: when run_analyze returns Ok, every manifest row with a missing or
\* blank dept, region or nom had none of its files read, is not among the
\* expected departments, has its 1-based number in
\* invalid_manifest_row_numbers, and the outcome is partial.
C17_InvalidRowMarksPartial ==
    (analyze.pc = "done" /\ analyze.result = "Ok") =>
        /\ analyze.expected_departments =
              Cardinality({k \in DOMAIN analyze.manifest :
                              ~InvalidManifestRow(analyze.manifest[k])})
        /\ \A k \in DOMAIN analyze.manifest :
              InvalidManifestRow(analyze.manifest[k]) =>
                  /\ \A r \in analyze.read : r[1] # k
                  /\ \E j \in DOMAIN analyze.invalid_manifest_row_numbers :
                        analyze.invalid_manifest_row_numbers[j] = k
                  /\ analyze.partial

(***************************************************************************)
(* Properties of the QA distance tiers                                     *)
(***************************************************************************)
\* the distinct non-null parcel ids with a match record of type PreExisting
\* or Inside, or at distance <= t
MatchedWithin(t) ==
    {Unwrap(m.id_parcelle) :
        m \in {qa.matches[j] : j \in {i \in DOMAIN qa.matches :
                  /\ IsSome(qa.matches[i].id_parcelle)
                  /\ \/ qa.matches[i].match_type \in {"PreExisting", "Inside"}
                     \/ /\ IsSome(qa.matches[i].distance_m)
                        /\ Unwrap(qa.matches[i].distance_m) <= t}}}

\* C20: a QA that returns Ok wrote one row per threshold of 5, 50, 100,
\* 250, 500, 1000, 1500, in that order; the row's matched_parcels is the
\* number of distinct non-null parcel ids matched within the threshold, its
\* total_parcels the row count of the parcel table, its coverage_pct the
\* fraction matched_parcels / total_parcels * 100 (no finite value when
\* the parcel table is empty); QaSummary.matched_parcels is the
\* matched_parcels of the 1500 row.
C20_DistanceTiers ==
    (qa.pc = "done" /\ qa.result = "Ok") =>
        /\ Len(qa.tiers_csv) = 7
        /\ \A k \in DOMAIN qa.tiers_csv :
              LET row == qa.tiers_csv[k]
              IN  /\ row.threshold_m = <<5, 50, 100, 250, 500, 1000, 1500>>[k]
                  /\ row.matched_parcels = Cardinality(MatchedWithin(row.threshold_m))
                  /\ row.total_parcels = Len(qa.parcel_rows)
                  /\ IF Len(qa.parcel_rows) > 0
                     THEN /\ row.coverage_pct.kind = "value"
                          /\ row.coverage_pct.num * Len(qa.parcel_rows) =
                                row.matched_parcels * 100 * row.coverage_pct.den
                     ELSE row.coverage_pct.kind \in {"NaN", "inf"}
        /\ Unwrap(qa.summary).matched_parcels = qa.tiers_csv[7].matched_parcels

\* two parcels, one matched at exactly 5 m and the other only from 1500 m,
\* so that the tiers differ
C20_Witness ==
    /\ qa.pc = "done" /\ qa.result = "Ok"
    /\ Len(qa.parcel_rows) = 2
    /\ qa.tiers_csv[1].matched_parcels = 1
    /\ qa.tiers_csv[6].matched_parcels = 1
    /\ qa.tiers_csv[7].matched_parcels = 2
    /\ \E j \in DOMAIN qa.matches : qa.matches[j].distance_m = Some(5)

(***************************************************************************)
(* Properties of the Stage-3 expansion loop                                *)
(***************************************************************************)
\* C24: the record a Stage-3 unit returns carries the smallest address id,
\* in lexicographic order, among the addresses at the distance of the
\* returned one, whatever the order of the address index.
C24_TieBreakSmallestId ==
    \A i \in Step3Returned :
        IsSome(step3_results[i]) =>
            LET best == Unwrap(step3_local[i].best_idx)
            IN  \A b \in AddrIdx :
                    Dist(i, b) = Dist(i, best) =>
                        ~StrLess(addresses[b].id, Unwrap(step3_results[i]).id_ban)

\* C25: a Stage-3 unit returns a record exactly when some address is
\* within fallback_max_distance_m of its parcel, for every config.
C25_RecordIffAddressWithinMax ==
    \A i \in Step3Returned :
        IsSome(step3_results[i]) <=>
            \E a \in AddrIdx : Dist(i, a) <= config.fallback_max_distance_m

\* what a step of the matcher does to the locals of the Stage-3 unit i
Step3LoopStep(i) ==
    /\ (i \notin DOMAIN step3_local /\ i \in DOMAIN step3_local') =>
          step3_local'[i].r = Max(config.fallback_envelope_expand_m, M2(5))
    /\ (i \in DOMAIN step3_local /\ i \in DOMAIN step3_local'
            /\ step3_local'[i] # step3_local[i]) =>
          /\ step3_local[i].phase = "loop"
          /\ step3_local'[i].phase = "loop" =>
                /\ step3_local'[i].r > step3_local[i].r
                /\ step3_local'[i].r <= config.fallback_max_distance_m
          /\ IsSome(step3_local[i].best_idx) => step3_local'[i].phase = "emit"

\* C27: the expansion loop of every Stage-3 unit starts at
\* max(fallback_envelope_expand_m, 5), each turn that does not leave the loop
\* strictly increases r and keeps it <= fallback_max_distance_m, a turn
\* that starts with a best address is the last one, and Stage 3 ends.
C27_ExpansionTerminates ==
    /\ [][\A i \in ParcelIdx : Step3LoopStep(i)]_vars
    /\ (pc = "step3") ~> (pc = "done")

\* a unit found its best address beyond the radius of the pass, ran the
\* closing pass at r = best_dist, and returned
C27_Witness ==
    /\ pc = "done"
    /\ \E i \in DOMAIN step3_local :
          /\ IsSome(step3_local[i].best_idx)
          /\ step3_local[i].r > Step3Start.r
          /\ step3_local[i].r = step3_local[i].best_dist
          /\ step3_local[i].r < config.fallback_max_distance_m

(***************************************************************************)
(* Properties of Stage 1                                                   *)
(***************************************************************************)
\* the Stage-1 unit of parcel i has returned
Step1Returned(i) ==
    /\ i \in DOMAIN step1_results
    /\ \/ Stage1Collected
       \/ pc = "step1" /\ unit_status[i] = "done"

\* number of Inside records at distance 0 of the unit of parcel i for address a
InsideCount(i, a) ==
    Cardinality({k \in DOMAIN step1_results[i] :
        /\ step1_results[i][k].match_type = "Inside"
        /\ step1_results[i][k].id_ban = addresses[a].id
        /\ step1_results[i][k].id_parcelle = Some(parcels[i].id)
        /\ step1_results[i][k].distance_m = 0})

\* C26: the Stage-1 unit of a parcel p returns one Inside record at distance
\* 0 for each address that lies in p's envelope, is at most 0.01 m from p's
\* geometry and is not pre-linked to p, and no other Inside record; no
\* (address, parcel) pair has both a PreExisting and an Inside record.
C26_Stage1InsideExactly ==
    /\ \A i \in ParcelIdx : Step1Returned(i) =>
          /\ \A a \in AddrIdx :
                InsideCount(i, a) =
                    IF /\ InEnvelope(parcels[i].envelope, addresses[a].geom)
                       /\ Dist(i, a) <= 1
                       /\ ~Linked(a, i)
                    THEN 1 ELSE 0
          /\ Cardinality({k \in DOMAIN step1_results[i] :
                             step1_results[i][k].match_type = "Inside"})
                = Cardinality({a \in AddrIdx : InsideCount(i, a) = 1})
    /\ \A m \in Emitted : \A n \in Emitted :
          (m.match_type = "PreExisting" /\ n.match_type = "Inside") =>
              ~(m.id_ban = n.id_ban /\ m.id_parcelle = n.id_parcelle)

\* b1, on the edge shared by P and S and pre-linked to P only, has its
\* PreExisting record for P and an Inside record for S; b2, on the same
\* edge without link, has an Inside record for each of the two parcels
C26_Witness ==
    /\ pc = "done"
    /\ \E a \in AddrIdx : \E b \in AddrIdx : \E i \in ParcelIdx : \E j \in ParcelIdx :
          /\ i # j /\ a # b
          /\ Linked(a, i) /\ ~Linked(a, j)
          /\ Dist(i, a) = 0 /\ InsideCount(i, a) = 0 /\ PreExistingCount(a, i) = 1
          /\ InsideCount(j, a) = 1
          /\ InsideCount(i, b) = 1 /\ InsideCount(j, b) = 1


(***************************************************************************)
(* Properties of the precision bins and of the address summary             *)
(***************************************************************************)
QaPriority(match_type) ==
    CASE match_type = "PreExisting" -> 0
      [] match_type = "Inside" -> 1
      [] match_type = "BorderNear" -> 2
      [] match_type = "FallbackNearest" -> 3
      [] OTHER -> 100

\* the parcel ids of the matches table
QaParcelIds ==
    {Unwrap(qa.matches[i].id_parcelle) :
        i \in {j \in DOMAIN qa.matches : IsSome(qa.matches[j].id_parcelle)}}

\* the records of parcel id that no other record of the parcel precedes
\* under ascending (priority, distance_m); the further order on id_ban
\* chooses among records of one type and one distance
BestOfParcel(id) ==
    LET recs == {i \in DOMAIN qa.matches : qa.matches[i].id_parcelle = Some(id)}
        Key(i) == <<QaPriority(qa.matches[i].match_type),
                    IF IsSome(qa.matches[i].distance_m)
                    THEN Unwrap(qa.matches[i].distance_m) ELSE F64_INFINITY>>
        Before(i, j) ==
            \/ Key(i)[1] < Key(j)[1]
            \/ Key(i)[1] = Key(j)[1] /\ Key(i)[2] < Key(j)[2]
    IN  {i \in recs : \A j \in recs : ~Before(j, i)}

\* the thirteen bins as (low, high] limits in metres
PrecisionLimits ==
    <<0, 1, 2, 5, 10, 15, 25, 50, 100, 250, 500, 1000, 1500, F64_INFINITY>>

\* the distribution of the best record of every parcel over the thirteen
\* bins, PreExisting and Inside left out
BestPerParcelDistribution ==
    [k \in 1..13 |->
        Cardinality({id \in QaParcelIds :
            \E i \in BestOfParcel(id) :
                /\ qa.matches[i].match_type \notin {"PreExisting", "Inside"}
                /\ IsSome(qa.matches[i].distance_m)
                /\ \/ k = 1 /\ Unwrap(qa.matches[i].distance_m) = 0
                   \/ /\ Unwrap(qa.matches[i].distance_m) > PrecisionLimits[k]
                      /\ Unwrap(qa.matches[i].distance_m) <= PrecisionLimits[k + 1]})]

\* C21: the qa_precision rows of a QA that returns Ok are the thirteen bins
\* 0-1, 1-2, 2-5, 5-10, 10-15, 15-25, 25-50, 50-100, 100-250, 250-500,
\* 500-1000, 1000-1500, >1500, each with the number of parcels whose best
\* record (ascending priority, distance_m, id_ban; PreExisting and Inside
\* left out) falls in the bin.
C21_PrecisionBestPerParcel ==
    (qa.pc = "done" /\ qa.result = "Ok") =>
        /\ Len(qa.precision_csv) = 13
        /\ \A k \in DOMAIN qa.precision_csv :
              qa.precision_csv[k].count = BestPerParcelDistribution[k]

\* the matches table holds what the matcher writes: one of the four match
\* kinds and a distance on every record
MatcherRecords ==
    \A i \in DOMAIN qa.matches :
        /\ qa.matches[i].match_type \in
              {"PreExisting", "Inside", "BorderNear", "FallbackNearest"}
        /\ IsSome(qa.matches[i].distance_m)

\* the records of the address of row i of the addresses table, and those of
\* them that none precedes under (priority, distance_m)
RecordsOfAddress(i) ==
    {j \in DOMAIN qa.matches : qa.matches[j].id_ban = qa.address_rows[i]}

BestOfAddress(i) ==
    {j \in RecordsOfAddress(i) :
        \A k \in RecordsOfAddress(i) :
            \/ QaPriority(qa.matches[j].match_type) < QaPriority(qa.matches[k].match_type)
            \/ /\ QaPriority(qa.matches[j].match_type) = QaPriority(qa.matches[k].match_type)
               /\ Unwrap(qa.matches[j].distance_m) <= Unwrap(qa.matches[k].distance_m)}

AddressesOfType(t) ==
    {i \in DOMAIN qa.address_rows : \E j \in BestOfAddress(i) : qa.matches[j].match_type = t}

AddressesWithin(lo, hi) ==
    {i \in DOMAIN qa.address_rows :
        \E j \in BestOfAddress(i) : /\ Unwrap(qa.matches[j].distance_m) > lo
                                    /\ Unwrap(qa.matches[j].distance_m) <= hi}

\* C22: in the qa_addresses row of a QA that returns Ok over the records the
\* matcher writes, every address is counted once, under the match type of
\* its best record (priority PreExisting < Inside < BorderNear <
\* FallbackNearest, then distance_m) or as unmatched when it has no record:
\* the five res_ counts add up to total_addresses, matched + unmatched =
\* total_addresses, and every matched address is in exactly one of the
\* distance bins 0-5, 5-15, 15-50, >50.
C22_AddressesPartition ==
    (qa.pc = "done" /\ qa.result = "Ok" /\ MatcherRecords) =>
        LET row == Unwrap(qa.addresses_csv)
            unmatched == {i \in DOMAIN qa.address_rows : RecordsOfAddress(i) = {}}
        IN  /\ row.total_addresses = Len(qa.address_rows)
            /\ row.res_pre = Cardinality(AddressesOfType("PreExisting"))
            /\ row.res_inside = Cardinality(AddressesOfType("Inside"))
            /\ row.res_border_near = Cardinality(AddressesOfType("BorderNear"))
            /\ row.res_fallback = Cardinality(AddressesOfType("FallbackNearest"))
            /\ row.res_none = Cardinality(unmatched)
            /\ row.unmatched_addresses = Cardinality(unmatched)
            /\ row.res_pre + row.res_inside + row.res_border_near + row.res_fallback
                  + row.res_none = row.total_addresses
            /\ row.matched_addresses + row.unmatched_addresses = row.total_addresses
            /\ row.dist_0_5 = Cardinality(AddressesWithin(-1, 5))
            /\ row.dist_5_15 = Cardinality(AddressesWithin(5, 15))
            /\ row.dist_15_50 = Cardinality(AddressesWithin(15, 50))
            /\ row.dist_gt_50 = Cardinality(AddressesWithin(50, F64_INFINITY))
            /\ row.dist_0_5 + row.dist_5_15 + row.dist_15_50 + row.dist_gt_50
                  = row.matched_addresses

\* two addresses, one without a record, the other with an Inside record
\* written before its PreExisting record and a farther FallbackNearest one
C22_Witness ==
    /\ qa.pc = "done" /\ qa.result = "Ok" /\ MatcherRecords
    /\ Len(qa.address_rows) = 2
    /\ Unwrap(qa.addresses_csv).res_none = 1
    /\ Unwrap(qa.addresses_csv).res_pre = 1
    /\ Len(qa.matches) = 2
    /\ qa.matches[1].match_type = "Inside"
    /\ qa.matches[1].id_ban = qa.matches[2].id_ban


(***************************************************************************)
(* Properties of run_analyze                                               *)
(***************************************************************************)
RECURSIVE Total(_)
Total(ns) == IF ns = <<>> THEN 0 ELSE Head(ns) + Total(Tail(ns))

\* the records with a parcel id of the matches file of department d
ParcelRecords(d) ==
    {analyze.tables[d][i] :
        i \in {j \in DOMAIN analyze.tables[d] : IsSome(analyze.tables[d][j].id_parcelle)}}

\* a precedes b under ascending (priority, distance_m, id_ban)
PrecedesInParcel(a, b) ==
    LET ka == <<QaPriority(a.match_type),
                IF IsSome(a.distance_m) THEN Unwrap(a.distance_m) ELSE -1>>
        kb == <<QaPriority(b.match_type),
                IF IsSome(b.distance_m) THEN Unwrap(b.distance_m) ELSE -1>>
    IN  \/ ka[1] < kb[1]
        \/ ka[1] = kb[1] /\ ka[2] < kb[2]
        \/ ka = kb /\ StrLess(a.id_ban, b.id_ban)

\* the minimum of every parcel id of department d
MinimumPerParcel(d) ==
    {r \in ParcelRecords(d) :
        \A o \in ParcelRecords(d) :
            (o.id_parcelle = r.id_parcelle /\ o # r) => PrecedesInParcel(r, o)}

C29_ManifestRowsAccounted ==
    (analyze.pc = "done" /\ analyze.result = "Ok") =>
        LET details == analyze.departement_details
            Rows(list) == {list[k] : k \in DOMAIN list}
            analyzed_rows == {details[k].row : k \in DOMAIN details}
        IN  /\ Len(analyze.manifest) =
                  analyze.invalid_manifest_rows + analyze.expected_departments
            /\ analyze.expected_departments =
                  analyze.analyzed + analyze.skipped_missing_matches
                     + analyze.skipped_missing_parcels
            /\ Len(analyze.invalid_manifest_row_numbers) = analyze.invalid_manifest_rows
            /\ Len(analyze.missing_matches_departments) = analyze.skipped_missing_matches
            /\ Len(analyze.missing_parcels_departments) = analyze.skipped_missing_parcels
            /\ Len(details) = analyze.analyzed
            /\ \A k \in DOMAIN details :
                  LET row == analyze.manifest[details[k].row]
                  IN  /\ details[k].row \notin Rows(analyze.invalid_manifest_row_numbers)
                      /\ DeptFile("matches", details[k].dept_code) \in analyze.files
                      /\ \/ DeptFile("parcelles", details[k].dept_code) \in analyze.files
                         \/ DeptFile("qa_distance_tiers", details[k].dept_code) \in analyze.files
                      /\ details[k].dept_code = Trim(Unwrap(row.dept))
                      /\ \A j \in DOMAIN details : j # k => details[j].row # details[k].row
            /\ analyze.national_total_p =
                  Total([k \in DOMAIN details |-> details[k].num_parcels])
            /\ analyze.national_matched_p =
                  Total([k \in DOMAIN details |-> details[k].matched_1500])
            /\ analyze.national_matched_any =
                  Total([k \in DOMAIN details |-> details[k].matched_any])
            /\ \A region \in DOMAIN analyze.region_agg :
                  analyze.region_agg[region][1] =
                      Total([k \in DOMAIN details |->
                                IF details[k].region = region
                                THEN details[k].num_parcels ELSE 0])

\* a manifest with an invalid row and a department without matches file,
\* and one with an analyzed department whose totals are not zero
C29_Witness ==
    /\ analyze.pc = "done" /\ analyze.result = "Ok"
    /\ Len(analyze.manifest) = 2
    /\ \/ analyze.invalid_manifest_rows = 1 /\ analyze.skipped_missing_matches = 1
       \/ /\ analyze.skipped_missing_parcels = 1 /\ analyze.analyzed = 1
          /\ analyze.national_matched_any > 0


(***************************************************************************)
(* Properties of BatchState                                                *)
(***************************************************************************)
\* the entries of the failed list for dept
FailedEntries(state, dept) ==
    {k \in DOMAIN state.failed : state.failed[k].dept = dept}

\* the last call made for dept, 0 when there is none
LastCallFor(dept) ==
    IF \E k \in DOMAIN batch.calls : batch.calls[k].dept = dept
    THEN CHOOSE k \in DOMAIN batch.calls :
            /\ batch.calls[k].dept = dept
            /\ \A j \in (k + 1)..Len(batch.calls) : batch.calls[j].dept # dept
    ELSE 0

\* C28 (state): after any sequence of mark_completed and mark_failed calls on
\* a state made by new(), no department is both completed and failed, failed
\* has at most one entry per department, and the status and the error of a
\* department are those of the last call made for it.
C28_LastCallDecides ==
    (batch.pc = "calls") =>
        \A dept \in DeptNames :
            LET last == LastCallFor(dept)
                entries == FailedEntries(batch.state, dept)
            IN  /\ ~(dept \in batch.state.completed /\ entries # {})
                /\ Cardinality(entries) <= 1
                /\ last = 0 => (dept \notin batch.state.completed /\ entries = {})
                /\ (last # 0 /\ batch.calls[last].op = "mark_completed") =>
                      (dept \in batch.state.completed /\ entries = {})
                /\ (last # 0 /\ batch.calls[last].op = "mark_failed") =>
                      /\ dept \notin batch.state.completed
                      /\ \E k \in entries : batch.state.failed[k].error = batch.calls[last].err

\* the failed entries of dept, in their order
FailedOf(state, dept) == SelectSeq(state.failed, LAMBDA f : f.dept = dept)

\* C28 (step): a call leaves the entries of the other departments unchanged.
C28_OtherDepartmentsUnchanged ==
    [][(batch.pc = "calls" /\ batch'.pc = "calls" /\ Len(batch'.calls) = Len(batch.calls) + 1) =>
          \A dept \in DeptNames \ {Last(batch'.calls).dept} :
              /\ (dept \in batch'.state.completed) = (dept \in batch.state.completed)
              /\ FailedOf(batch'.state, dept) = FailedOf(batch.state, dept)]_vars

\* C28: both parts
C28_BatchStateCalls ==
    /\ [](C28_LastCallDecides)
    /\ C28_OtherDepartmentsUnchanged

\* a department failed, failed again with another error, then completed,
\* while another department stays failed
C28_Witness ==
    /\ batch.pc = "calls"
    /\ Len(batch.calls) = 4
    /\ batch.calls[1] = [op |-> "mark_failed", dept |-> "01", err |-> "e"]
    /\ batch.calls[2] = [op |-> "mark_failed", dept |-> "02", err |-> "e"]
    /\ batch.calls[3] = [op |-> "mark_failed", dept |-> "01", err |-> "f"]
    /\ batch.calls[4] = [op |-> "mark_completed", dept |-> "01", err |-> ""]
    /\ batch.state = [completed |-> {"01"}, failed |-> <<FailedDept("02", "e")>>]


(***************************************************************************)
(* Properties of the resume of run_pipeline                                *)
(***************************************************************************)
\* the run is past its setup and has not failed in it
PipelineLooped ==
    /\ batch.pc \notin {"none", "setup", "calls"}
    /\ batch.cause \notin {"setup", "load"}
    /\ ~(batch.cause = "save" /\ batch.idx = 0)

\* the state file holds the running state
StateSaved == batch.state_file = StateFile(TRUE, TRUE, batch.state)

\* the department at position k of the list was left out or processed as
\* the loaded state says, in list order, and its outcome is in the state
ListedDepartment(k) ==
    LET dept == batch.depts[k]
    IN  IF args.resume /\ dept \in batch.loaded.completed
        THEN /\ batch.log[k] = "skipped"
             /\ dept \in batch.state.completed
        ELSE /\ batch.log[k] \in {"Ok", "Err", "Panic"}
             /\ batch.log[k] = "Ok" => dept \in batch.state.completed
             /\ batch.log[k] # "Ok" =>
                   /\ dept \notin batch.state.completed
                   /\ \E j \in DOMAIN batch.state.failed : batch.state.failed[j].dept = dept

ResumeOutcome ==
    /\ ~args.resume => batch.loaded = BatchState_new
    /\ Len(batch.log) = batch.idx - 1
    /\ \A k \in DOMAIN batch.log : ListedDepartment(k)
    /\ batch.pc \in {"loop", "aggregating"} => StateSaved
    /\ batch.pc = "record" =>
          batch.state_file.exists /\ batch.state_file.parses
             /\ \A k \in DOMAIN batch.log :
                   (batch.depts[k] \in batch.state_file.state.completed)
                      = (batch.depts[k] \in batch.state.completed)
    /\ batch.pc = "aggregating" => Len(batch.log) = Len(batch.depts)

NoDepartmentTwice ==
    \A j, k \in DOMAIN batch.depts : j # k => batch.depts[j] # batch.depts[k]

\* C30 as stated: with resume a department the loaded state lists as
\* completed is skipped and stays completed; every other listed department
\* is processed once, in list order, and the state file is saved with its
\* outcome before the next department starts; without resume the run starts
\* from an empty state and every listed department is processed.
C30_ListedDepartmentsOnce ==
    PipelineLooped => ResumeOutcome

\* C30 for a list that names no department twice: the same
C30_DistinctDepartmentsOnce ==
    (PipelineLooped /\ NoDepartmentTwice) => ResumeOutcome

\* a resumed run over 01, 02 whose loaded state lists 01 as completed: 01
\* was skipped, 02 processed and recorded as failed in the saved state
C30_Witness ==
    /\ batch.pc = "aggregating"
    /\ args.resume
    /\ batch.depts = <<"01", "02">>
    /\ batch.loaded.completed = {"01"}
    /\ batch.log = <<"skipped", "Err">>
    /\ batch.state_file.state = [completed |-> {"01"}, failed |-> <<FailedDept("02", "e")>>]

====
